---- MODULE Spec2Model ----
(***************************************************************************)
(* RBAC authorization engine of the admin-dashboard starter:               *)
(*   Permission / Role / User entities  (core/domain/entities)             *)
(*   authorization guards               (lib/auth/authorization.ts)        *)
(*   route middleware withAuthorization (lib/auth/with-authorization.ts)   *)
(*                                                                         *)
(* Entities are mutable objects that share arrays by reference, so the     *)
(* model keeps a small heap: role objects and permission arrays are        *)
(* addressed by references.  Strings are TLA+ strings; template literals   *)
(* and join() are modelled by concatenation.                               *)
(***************************************************************************)
EXTENDS Integers, Sequences, FiniteSets, TLC

\* ---------------------------------------------------------------- bounds
MaxRoles == 2      \* number of Role objects that can be constructed
MaxLen == 2        \* longest array (permission list, role list, argument list)
MaxTime == 1       \* last value of the clock read by new Date()
MaxTasks == 2      \* asynchronous calls in flight at once

VARIABLES
  now,          \* the clock read by new Date()
  roles,        \* heap of Role objects: RoleRefs -> RoleProps or Null
  permArrays,   \* heap of Permission[] arrays, by reference
  callerPerms,  \* the Permission[] the calling code holds (None or Some(ref))
  callerRoles,  \* the Role[] the calling code holds (None or Some(array))
  user,         \* the User object (UserProps) or Null when none is loaded
  call,         \* the last operation called: name, arguments and outcome
  mw,           \* the route function returned by withAuthorization
  db,           \* the IndexedDB object stores: permissions, roles, users
  prisma,       \* the Prisma tables: users, userRoles
  tasks         \* the asynchronous repository / use-case calls in flight

vars == <<now, roles, permArrays, callerPerms, callerRoles, user, call, mw, db, prisma, tasks>>

\* ------------------------------------------------------- values and results
Null == [null |-> TRUE]
None == <<>>
Some(v) == <<v>>

\* a call that returned normally (void), returned a value, or threw
Returned == [thrown |-> FALSE]
ReturnedValue(v) == [thrown |-> FALSE, value |-> v]
Threw(type, message) == [thrown |-> TRUE, type |-> type, message |-> message]

ValidationError(message) == Threw("ValidationError", message)
InvalidOperationError(message) == Threw("InvalidOperationError", message)
UnauthorizedError(message) == Threw("UnauthorizedError", message)

RoleRefs == 1..MaxRoles

\* ------------------------------------------------------------ string helpers
CharAt(s, i) == SubSeq(s, i, i)

Whitespace == {" "}

AlnumUnderscore ==
  {"a","b","c","d","e","f","g","h","i","j","k","l","m","n","o","p","q","r","s","t","u","v","w","x","y","z",
   "A","B","C","D","E","F","G","H","I","J","K","L","M","N","O","P","Q","R","S","T","U","V","W","X","Y","Z",
   "0","1","2","3","4","5","6","7","8","9","_"}

\* s.trim().length === 0
IsBlank(s) == \A i \in 1..Len(s) : CharAt(s, i) \in Whitespace

\* !s || s.trim().length === 0
IsEmptyOrBlank(s) == s = "" \/ IsBlank(s)

\* /^[a-zA-Z0-9_]+$/.test(s)
RoleNamePattern(s) == Len(s) >= 1 /\ \A i \in 1..Len(s) : CharAt(s, i) \in AlnumUnderscore

\* strs.join(', ')
RECURSIVE Join(_)
Join(strs) ==
  IF Len(strs) = 0 THEN ""
  ELSE IF Len(strs) = 1 THEN strs[1]
  ELSE strs[1] \o ", " \o Join(Tail(strs))

\* arr.filter(keep), for a set of kept indices
RECURSIVE FilterSeq(_, _, _)
FilterSeq(arr, keep, i) ==
  IF i > Len(arr) THEN <<>>
  ELSE IF i \in keep THEN <<arr[i]>> \o FilterSeq(arr, keep, i + 1)
  ELSE FilterSeq(arr, keep, i + 1)

\* sequences over S of length at most n
SeqsUpTo(S, n) == UNION {[1..k -> S] : k \in 0..n}

\* ------------------------------------------------------------------ Permission
\* Permission objects as reconstituted from storage; p3 carries the same
\* resource:action as p1 under another id and name.
PermUsersDelete == [id |-> "p1", name |-> "Delete users", resource |-> "users", action |-> "delete"]
PermPostsRead == [id |-> "p2", name |-> "Read posts", resource |-> "posts", action |-> "read"]
PermUsersDeleteDup == [id |-> "p3", name |-> "Remove users", resource |-> "users", action |-> "delete"]

PermissionPool == {PermUsersDelete, PermPostsRead, PermUsersDeleteDup}

\* /^[a-z0-9_-]+$/i.test(s)
PermissionTokenPattern(s) ==
  Len(s) >= 1 /\ \A i \in 1..Len(s) : CharAt(s, i) \in AlnumUnderscore \cup {"-"}

\* mutation: the pattern is tested on the resource only
Permission_validate_resourceOnly(props) ==
  IF IsEmptyOrBlank(props.name) THEN ValidationError("Permission name is required")
  ELSE IF IsEmptyOrBlank(props.resource) THEN ValidationError("Permission resource is required")
  ELSE IF IsEmptyOrBlank(props.action) THEN ValidationError("Permission action is required")
  ELSE IF ~PermissionTokenPattern(props.resource)
    THEN ValidationError("Resource contains invalid characters")
  ELSE Returned

\* Permission.validate
Permission_validate(props) ==
  IF IsEmptyOrBlank(props.name) THEN ValidationError("Permission name is required")
  ELSE IF IsEmptyOrBlank(props.resource) THEN ValidationError("Permission resource is required")
  ELSE IF IsEmptyOrBlank(props.action) THEN ValidationError("Permission action is required")
  ELSE IF ~PermissionTokenPattern(props.resource)
    THEN ValidationError("Resource contains invalid characters")
  ELSE IF ~PermissionTokenPattern(props.action)
    THEN ValidationError("Action contains invalid characters")
  ELSE Returned

\* Permission.create: validate, then new Permission({...props, id: ''})
Permission_createResult(props) ==
  LET v == Permission_validate(props) IN
  IF v.thrown THEN v
  ELSE ReturnedValue([id |-> "", name |-> props.name, resource |-> props.resource,
                      action |-> props.action])

getPermissionString(p) == p.resource \o ":" \o p.action

matchesString(p, permissionString) == getPermissionString(p) = permissionString

\* ------------------------------------------------------------------------ Role
MaxRoleNameLength == 50

\* the Permission[] a role object holds (this.props.permissions)
PermsOf(role) == permArrays[role.permissions]

\* Role.validate
validate(props) ==
  IF IsEmptyOrBlank(props.name) THEN ValidationError("Role name is required")
  ELSE IF Len(props.name) > MaxRoleNameLength
    THEN ValidationError("Role name must be less than 50 characters")
  ELSE IF ~RoleNamePattern(props.name)
    THEN ValidationError("Role name contains invalid characters")
  ELSE Returned

\* Role.hasPermission: some permission of the list matches the string
Role_hasPermission(perms, permissionString) ==
  \E i \in 1..Len(perms) : matchesString(perms[i], permissionString)

\* Role.hasAnyPermission
Role_hasAnyPermission(perms, permissionStrings) ==
  \E k \in 1..Len(permissionStrings) : Role_hasPermission(perms, permissionStrings[k])

\* Role.hasAllPermissions
Role_hasAllPermissions(perms, permissionStrings) ==
  \A k \in 1..Len(permissionStrings) : Role_hasPermission(perms, permissionStrings[k])

\* Role.getPermissionStrings
Role_getPermissionStrings(perms) == [i \in 1..Len(perms) |-> getPermissionString(perms[i])]

\* Each mutator is computed as the code computes it: from the role's props and
\* its permission array to the outcome, the new props, the new array content
\* and whether the array is a new object (filter / spread) or the same one.
Outcome(result, role, perms, newArray) ==
  [result |-> result, role |-> role, perms |-> perms, newArray |-> newArray]

\* Role.touch
Role_touch(role) == [role EXCEPT !.updatedAt = now]

\* mutation: the name is validated before the system flag is tested
updateDetails_validateFirst(role, perms, name, description) ==
  IF IsEmptyOrBlank(name)
    THEN Outcome(ValidationError("Role name is required"), role, perms, FALSE)
  ELSE IF role.isSystem
    THEN Outcome(InvalidOperationError("Cannot modify system roles"), role, perms, FALSE)
  ELSE Outcome(Returned,
               Role_touch([role EXCEPT !.name = name, !.description = description]),
               perms, FALSE)

\* Role.updateDetails
updateDetails(role, perms, name, description) ==
  IF role.isSystem
    THEN Outcome(InvalidOperationError("Cannot modify system roles"), role, perms, FALSE)
  ELSE IF IsEmptyOrBlank(name)
    THEN Outcome(ValidationError("Role name is required"), role, perms, FALSE)
  ELSE Outcome(Returned,
               Role_touch([role EXCEPT !.name = name, !.description = description]),
               perms, FALSE)

\* mutation: presence is decided by object identity (includes) instead of by string
addPermission_byIdentity(role, perms, permission) ==
  IF role.isSystem
    THEN Outcome(InvalidOperationError("Cannot modify permissions of system roles"),
                 role, perms, FALSE)
  ELSE IF \E i \in 1..Len(perms) : perms[i] = permission
    THEN Outcome(Returned, role, perms, FALSE)
  ELSE Outcome(Returned, Role_touch(role), Append(perms, permission), FALSE)

\* mutation: touch() is called before the early return
addPermission_alwaysTouch(role, perms, permission) ==
  IF role.isSystem
    THEN Outcome(InvalidOperationError("Cannot modify permissions of system roles"),
                 role, perms, FALSE)
  ELSE IF Role_hasPermission(perms, getPermissionString(permission))
    THEN Outcome(Returned, Role_touch(role), perms, FALSE)
  ELSE Outcome(Returned, Role_touch(role), Append(perms, permission), FALSE)

\* Role.addPermission
addPermission(role, perms, permission) ==
  IF role.isSystem
    THEN Outcome(InvalidOperationError("Cannot modify permissions of system roles"),
                 role, perms, FALSE)
  ELSE IF Role_hasPermission(perms, getPermissionString(permission))
    THEN Outcome(Returned, role, perms, FALSE)
  ELSE Outcome(Returned, Role_touch(role), Append(perms, permission), FALSE)

\* Role.addPermissions: forEach addPermission; the first throw ends the loop
RECURSIVE addPermissions(_, _, _)
addPermissions(role, perms, permissions) ==
  IF Len(permissions) = 0 THEN Outcome(Returned, role, perms, FALSE)
  ELSE LET first == addPermission(role, perms, Head(permissions)) IN
       IF first.result.thrown THEN first
       ELSE addPermissions(first.role, first.perms, Tail(permissions))

\* mutation: updatedAt is set only when a permission was removed
removePermission_touchOnChange(role, perms, permissionId) ==
  IF role.isSystem
    THEN Outcome(InvalidOperationError("Cannot modify permissions of system roles"),
                 role, perms, FALSE)
  ELSE LET kept == FilterSeq(perms, {i \in 1..Len(perms) : perms[i].id # permissionId}, 1)
       IN Outcome(Returned, IF kept = perms THEN role ELSE Role_touch(role), kept, TRUE)

\* Role.removePermission
removePermission(role, perms, permissionId) ==
  IF role.isSystem
    THEN Outcome(InvalidOperationError("Cannot modify permissions of system roles"),
                 role, perms, FALSE)
  ELSE Outcome(Returned, Role_touch(role),
               FilterSeq(perms, {i \in 1..Len(perms) : perms[i].id # permissionId}, 1),
               TRUE)

\* Role.setPermissions
setPermissions(role, perms, permissions) ==
  IF role.isSystem
    THEN Outcome(InvalidOperationError("Cannot modify permissions of system roles"),
                 role, perms, FALSE)
  ELSE Outcome(Returned, Role_touch(role), permissions, TRUE)

\* -------------------------------------------------------------- heap plumbing
Exists(r) == roles[r] # Null

\* Array references: an array held by role objects is named after the first
\* role holding it, an array only the calling code holds is CallerRef, and
\* NewRef names an array just allocated, before Store renames it.
NewRef == 0
CallerRef == MaxRoles + 1

Holders(rs, a) == {r \in RoleRefs : rs[r] # Null /\ rs[r].permissions = a}

LivePermArrays(rs, cp) ==
  {rs[r].permissions : r \in {q \in RoleRefs : rs[q] # Null}} \cup {cp[i] : i \in DOMAIN cp}

NameOf(rs, a) ==
  IF Holders(rs, a) = {} THEN CallerRef
  ELSE CHOOSE r \in Holders(rs, a) : \A q \in Holders(rs, a) : r <= q

\* store the objects, drop the arrays nothing refers to any more
Store(rs, heap, cp) ==
  LET live == LivePermArrays(rs, cp) IN
  /\ roles' = [r \in RoleRefs |->
                 IF rs[r] = Null THEN Null
                 ELSE [rs[r] EXCEPT !.permissions = NameOf(rs, rs[r].permissions)]]
  /\ permArrays' = [b \in {NameOf(rs, a) : a \in live} |->
                      heap[CHOOSE a \in live : NameOf(rs, a) = b]]
  /\ callerPerms' = IF cp = None THEN None ELSE Some(NameOf(rs, cp[1]))

\* store the outcome of a mutator called on role object r
ApplyToRole(r, fn, args, out) ==
  /\ Len(out.perms) <= MaxLen
  /\ LET ref == IF out.newArray THEN NewRef ELSE roles[r].permissions
         rs == [roles EXCEPT ![r] = [out.role EXCEPT !.permissions = ref]]
         heap == (ref :> out.perms) @@ permArrays
     IN Store(rs, heap, callerPerms)
  /\ call' = [fn |-> fn, target |-> r, args |-> args, result |-> out.result]
  /\ UNCHANGED <<now, callerRoles, user, mw, db, prisma, tasks>>

\* ---------------------------------------------------------------- Role actions
\* names of exactly 50 and 51 characters
Name50 == "ROLE_0123456789_0123456789_0123456789_0123456789_X"
Name51 == Name50 \o "Y"

CreateNameInputs == {"EDITOR", "", " ", "bad name", Name50, Name51}
UpdateNameInputs == {"VIEWER", "", "bad name"}
PermissionIdInputs == {"p1", "p2", "p9"}

NoCall == [fn |-> "none"]

\* new Date() advances between calls
Tick ==
  /\ now < MaxTime
  /\ now' = now + 1
  /\ call' = NoCall
  /\ UNCHANGED <<roles, permArrays, callerPerms, callerRoles, user, mw, db, prisma, tasks>>

\* the calling code builds a new Permission[] (e.g. a repository mapping rows)
Caller_newPermArray ==
  /\ Store(roles, (NewRef :> <<>>) @@ permArrays, Some(NewRef))
  /\ call' = [fn |-> "Caller.newPermArray"]
  /\ UNCHANGED <<now, callerRoles, user, mw, db, prisma, tasks>>

\* the calling code pushes onto the Permission[] it holds
Caller_pushPerm(permission) ==
  /\ callerPerms # None
  /\ Len(permArrays[callerPerms[1]]) < MaxLen
  /\ permArrays' = [permArrays EXCEPT ![callerPerms[1]] = Append(@, permission)]
  /\ call' = [fn |-> "Caller.pushPerm"]
  /\ UNCHANGED <<now, roles, callerPerms, callerRoles, user, mw, db, prisma, tasks>>

\* Role.create(props) into the new object r: validate, then
\* new Role({...props, permissions: props.permissions || []})
Role_create(r, props, withPermissions) ==
  /\ roles[r] = Null
  /\ withPermissions => callerPerms # None
  /\ LET v == validate(props)
         ref == IF withPermissions THEN callerPerms[1] ELSE NewRef
         args == [name |-> props.name, isSystem |-> props.isSystem,
                  withPermissions |-> withPermissions]
     IN IF v.thrown
        THEN /\ call' = [fn |-> "Role.create", target |-> 0, args |-> args, result |-> v]
             /\ UNCHANGED <<roles, permArrays, callerPerms>>
        ELSE /\ Store([roles EXCEPT ![r] =
                         [id |-> "", name |-> props.name, description |-> props.description,
                          isSystem |-> props.isSystem, permissions |-> ref,
                          updatedAt |-> now]],
                      IF withPermissions THEN permArrays ELSE (ref :> <<>>) @@ permArrays,
                      callerPerms)
             /\ call' = [fn |-> "Role.create", target |-> r, args |-> args, result |-> Returned]
  /\ UNCHANGED <<now, callerRoles, user, mw, db, prisma, tasks>>

\* Role.fromPersistence(props) into the new object r: new Role(props), no
\* validation, the array of the props is kept
Role_fromPersistence(r, id, name, isSystem) ==
  /\ roles[r] = Null
  /\ callerPerms # None
  /\ Store([roles EXCEPT ![r] =
              [id |-> id, name |-> name, description |-> None, isSystem |-> isSystem,
               permissions |-> callerPerms[1], updatedAt |-> 0]],
           permArrays, callerPerms)
  /\ call' = [fn |-> "Role.fromPersistence", target |-> r,
              args |-> [id |-> id, name |-> name, isSystem |-> isSystem], result |-> Returned]
  /\ UNCHANGED <<now, callerRoles, user, mw, db, prisma, tasks>>

Role_updateDetails(r, name, description) ==
  /\ Exists(r)
  /\ ApplyToRole(r, "Role.updateDetails", [name |-> name, description |-> description],
                 updateDetails(roles[r], PermsOf(roles[r]), name, description))

Role_addPermission(r, permission) ==
  /\ Exists(r)
  /\ ApplyToRole(r, "Role.addPermission", [permission |-> permission],
                 addPermission(roles[r], PermsOf(roles[r]), permission))

\* the list arguments are the array the calling code holds
Role_addPermissions(r) ==
  /\ Exists(r)
  /\ callerPerms # None
  /\ LET permissions == permArrays[callerPerms[1]] IN
     ApplyToRole(r, "Role.addPermissions", [permissions |-> permissions],
                 addPermissions(roles[r], PermsOf(roles[r]), permissions))

Role_removePermission(r, permissionId) ==
  /\ Exists(r)
  /\ ApplyToRole(r, "Role.removePermission", [permissionId |-> permissionId],
                 removePermission(roles[r], PermsOf(roles[r]), permissionId))

Role_setPermissions(r) ==
  /\ Exists(r)
  /\ callerPerms # None
  /\ LET permissions == permArrays[callerPerms[1]] IN
     ApplyToRole(r, "Role.setPermissions", [permissions |-> permissions],
                 setPermissions(roles[r], PermsOf(roles[r]), permissions))

\* the role object the role specification constructs and mutates
TheRole == 1

RoleNext ==
  \/ Tick
  \/ Caller_newPermArray
  \/ \E p \in PermissionPool : Caller_pushPerm(p)
  \/ \E n \in CreateNameInputs, sys \in BOOLEAN, w \in BOOLEAN :
       Role_create(TheRole, [name |-> n, description |-> None, isSystem |-> sys], w)
  \/ \E sys \in BOOLEAN : Role_fromPersistence(TheRole, "r1", "ADMIN", sys)
  \/ \E n \in UpdateNameInputs : Role_updateDetails(TheRole, n, Some("text"))
  \/ \E p \in PermissionPool : Role_addPermission(TheRole, p)
  \/ Role_addPermissions(TheRole)
  \/ \E id \in PermissionIdInputs : Role_removePermission(TheRole, id)
  \/ Role_setPermissions(TheRole)

MwIdle == [pc |-> "idle"]

\* asynchronous calls that may be in flight at once
TaskIds == 1..MaxTasks
TaskIdle == [pc |-> "idle"]

\* nothing constructed yet
Init ==
  /\ now = 0
  /\ roles = [r \in RoleRefs |-> Null]
  /\ permArrays = <<>>
  /\ callerPerms = None
  /\ callerRoles = None
  /\ user = Null
  /\ call = NoCall
  /\ mw = MwIdle
  /\ db = [permissions |-> {}, roles |-> {}, users |-> {}]
  /\ prisma = [users |-> {}, userRoles |-> {}]
  /\ tasks = [t \in TaskIds |-> TaskIdle]

SpecRole == Init /\ [][RoleNext]_vars

\* ------------------------------------------------------------------------ User
\* the Role objects of the user's role list (this.props.roles), in order
RolesOf(u) == [i \in 1..Len(u.roles) |-> roles[u.roles[i]]]

\* User.hasRole
User_hasRole(u, roleName) == \E i \in 1..Len(u.roles) : roles[u.roles[i]].name = roleName

\* User.hasAnyRole
User_hasAnyRole(u, roleNames) == \E k \in 1..Len(roleNames) : User_hasRole(u, roleNames[k])

\* User.hasAllRoles
User_hasAllRoles(u, roleNames) == \A k \in 1..Len(roleNames) : User_hasRole(u, roleNames[k])

\* mutation: every() instead of some(), the intersection over the roles
User_hasPermission_everyRole(u, permissionString) ==
  \A i \in 1..Len(u.roles) : Role_hasPermission(PermsOf(roles[u.roles[i]]), permissionString)

\* User.hasPermission: some role of the list has the permission
User_hasPermission(u, permissionString) ==
  \E i \in 1..Len(u.roles) : Role_hasPermission(PermsOf(roles[u.roles[i]]), permissionString)

\* User.hasAnyPermission
User_hasAnyPermission(u, permissionStrings) ==
  \E k \in 1..Len(permissionStrings) : User_hasPermission(u, permissionStrings[k])

\* mutation: an empty requirement list is refused (length > 0 && every)
User_hasAllPermissions_nonEmpty(u, permissionStrings) ==
  /\ Len(permissionStrings) > 0
  /\ \A k \in 1..Len(permissionStrings) : User_hasPermission(u, permissionStrings[k])

\* User.hasAllPermissions
User_hasAllPermissions(u, permissionStrings) ==
  \A k \in 1..Len(permissionStrings) : User_hasPermission(u, permissionStrings[k])

\* User.getRoleNames
User_getRoleNames(u) == [i \in 1..Len(u.roles) |-> roles[u.roles[i]].name]

\* Set.add keeps the first occurrence of a string: the indices kept
FirstOccurrences(strs) == {i \in 1..Len(strs) : \A j \in 1..(i - 1) : strs[j] # strs[i]}

\* new Set(); forEach add; Array.from: first occurrences, in insertion order
\* (the argument is bound to v so that it is evaluated once)
Dedupe(strs) ==
  CHOOSE out \in {FilterSeq(v, FirstOccurrences(v), 1) : v \in {strs}} : TRUE

RECURSIVE Flatten(_)
Flatten(lists) == IF Len(lists) = 0 THEN <<>> ELSE Head(lists) \o Flatten(Tail(lists))

\* mutation: an array instead of the Set, every string of every role pushed
User_getAllPermissions_noSet(u) ==
  Flatten([i \in 1..Len(u.roles) |-> Role_getPermissionStrings(PermsOf(roles[u.roles[i]]))])

\* User.getAllPermissions
User_getAllPermissions(u) ==
  Dedupe(Flatten([i \in 1..Len(u.roles) |-> Role_getPermissionStrings(PermsOf(roles[u.roles[i]]))]))

\* User.isActive
isActive(u) == u.status = "ACTIVE"

\* User.isAdmin
isAdmin(u) == User_hasAnyRole(u, <<"ADMIN", "SUPER_ADMIN">>)

\* User.isSuperAdmin
isSuperAdmin(u) == User_hasRole(u, "SUPER_ADMIN")

\* User.canPerformAdminActions
canPerformAdminActions(u) == isActive(u) /\ isAdmin(u)

\* User.touch
User_touch(u) == [u EXCEPT !.updatedAt = now]

UserOutcome(result, u) == [result |-> result, user |-> u]

\* User.assignRole(role), role being the object r
assignRole(u, r) ==
  IF User_hasRole(u, roles[r].name) THEN UserOutcome(Returned, u)
  ELSE UserOutcome(Returned, User_touch([u EXCEPT !.roles = Append(@, r)]))

\* User.assignRoles: forEach assignRole
RECURSIVE assignRoles(_, _)
assignRoles(u, rs) ==
  IF Len(rs) = 0 THEN UserOutcome(Returned, u)
  ELSE assignRoles(assignRole(u, Head(rs)).user, Tail(rs))

\* User.removeRole
removeRole(u, roleId) ==
  UserOutcome(Returned,
              User_touch([u EXCEPT !.roles =
                FilterSeq(@, {i \in 1..Len(@) : roles[@[i]].id # roleId}, 1)]))

\* mutation: the new roles are added to the ones the user holds
setRoles_keepsOld(u, rs) == UserOutcome(Returned, User_touch([u EXCEPT !.roles = @ \o rs]))

\* User.setRoles
setRoles(u, rs) == UserOutcome(Returned, User_touch([u EXCEPT !.roles = rs]))

\* User.activate
activate(u) ==
  IF u.status = "ACTIVE" THEN UserOutcome(Returned, u)
  ELSE UserOutcome(Returned, User_touch([u EXCEPT !.status = "ACTIVE"]))

\* User.deactivate
deactivate(u) ==
  IF u.status = "INACTIVE" THEN UserOutcome(Returned, u)
  ELSE UserOutcome(Returned, User_touch([u EXCEPT !.status = "INACTIVE"]))

\* User.suspend
suspend(u) ==
  IF u.status = "SUSPENDED" THEN UserOutcome(Returned, u)
  ELSE UserOutcome(Returned, User_touch([u EXCEPT !.status = "SUSPENDED"]))

\* ---------------------------------------------------------------------- guards
\* lib/auth/authorization.ts; u is the User object or Null

requirePermission(u, permission) ==
  IF u = Null THEN UnauthorizedError("Authentication required")
  ELSE IF ~isActive(u) THEN UnauthorizedError("Account is not active")
  ELSE IF ~User_hasPermission(u, permission)
    THEN UnauthorizedError("Permission denied: " \o permission)
  ELSE Returned

requireAnyPermission(u, permissions) ==
  IF u = Null THEN UnauthorizedError("Authentication required")
  ELSE IF ~isActive(u) THEN UnauthorizedError("Account is not active")
  ELSE IF ~User_hasAnyPermission(u, permissions)
    THEN UnauthorizedError("Permission denied: one of " \o Join(permissions))
  ELSE Returned

requireAllPermissions(u, permissions) ==
  IF u = Null THEN UnauthorizedError("Authentication required")
  ELSE IF ~isActive(u) THEN UnauthorizedError("Account is not active")
  ELSE IF ~User_hasAllPermissions(u, permissions)
    THEN UnauthorizedError("Permission denied: all of " \o Join(permissions))
  ELSE Returned

requireRole(u, role) ==
  IF u = Null THEN UnauthorizedError("Authentication required")
  ELSE IF ~isActive(u) THEN UnauthorizedError("Account is not active")
  ELSE IF ~User_hasRole(u, role) THEN UnauthorizedError("Role required: " \o role)
  ELSE Returned

requireAnyRole(u, roleNames) ==
  IF u = Null THEN UnauthorizedError("Authentication required")
  ELSE IF ~isActive(u) THEN UnauthorizedError("Account is not active")
  ELSE IF ~User_hasAnyRole(u, roleNames)
    THEN UnauthorizedError("Role required: one of " \o Join(roleNames))
  ELSE Returned

requireAllRoles(u, roleNames) ==
  IF u = Null THEN UnauthorizedError("Authentication required")
  ELSE IF ~isActive(u) THEN UnauthorizedError("Account is not active")
  ELSE IF ~User_hasAllRoles(u, roleNames)
    THEN UnauthorizedError("Roles required: all of " \o Join(roleNames))
  ELSE Returned

requireAuthenticated(u) ==
  IF u = Null THEN UnauthorizedError("Authentication required")
  ELSE IF ~isActive(u) THEN UnauthorizedError("Account is not active")
  ELSE Returned

\* mutation: the role is tested before the account status
requireAdmin_roleFirst(u) ==
  IF u = Null THEN UnauthorizedError("Authentication required")
  ELSE IF ~isAdmin(u) THEN UnauthorizedError("Admin access required")
  ELSE IF ~isActive(u) THEN UnauthorizedError("Account is not active")
  ELSE Returned

requireAdmin(u) ==
  IF u = Null THEN UnauthorizedError("Authentication required")
  ELSE IF ~isActive(u) THEN UnauthorizedError("Account is not active")
  ELSE IF ~isAdmin(u) THEN UnauthorizedError("Admin access required")
  ELSE Returned

requireSuperAdmin(u) ==
  IF u = Null THEN UnauthorizedError("Authentication required")
  ELSE IF ~isActive(u) THEN UnauthorizedError("Account is not active")
  ELSE IF ~isSuperAdmin(u) THEN UnauthorizedError("Super admin access required")
  ELSE Returned

\* mutation: the account status is not tested
hasPermission_ignoresStatus(u, permission) ==
  IF u = Null THEN ReturnedValue(FALSE)
  ELSE ReturnedValue(User_hasPermission(u, permission))

hasPermission(u, permission) ==
  IF u = Null \/ ~isActive(u) THEN ReturnedValue(FALSE)
  ELSE ReturnedValue(User_hasPermission(u, permission))

hasAnyPermission(u, permissions) ==
  IF u = Null \/ ~isActive(u) THEN ReturnedValue(FALSE)
  ELSE ReturnedValue(User_hasAnyPermission(u, permissions))

hasAllPermissions(u, permissions) ==
  IF u = Null \/ ~isActive(u) THEN ReturnedValue(FALSE)
  ELSE ReturnedValue(User_hasAllPermissions(u, permissions))

hasRole(u, role) ==
  IF u = Null \/ ~isActive(u) THEN ReturnedValue(FALSE)
  ELSE ReturnedValue(User_hasRole(u, role))

hasAnyRole(u, roleNames) ==
  IF u = Null \/ ~isActive(u) THEN ReturnedValue(FALSE)
  ELSE ReturnedValue(User_hasAnyRole(u, roleNames))

hasAllRoles(u, roleNames) ==
  IF u = Null \/ ~isActive(u) THEN ReturnedValue(FALSE)
  ELSE ReturnedValue(User_hasAllRoles(u, roleNames))

\* mutation: && instead of the two early returns, owner and permission both needed
requireOwnershipOrPermission_both(u, resourceOwnerId, permission) ==
  IF u = Null THEN UnauthorizedError("Authentication required")
  ELSE IF ~isActive(u) THEN UnauthorizedError("Account is not active")
  ELSE IF u.id = resourceOwnerId /\ User_hasPermission(u, permission) THEN Returned
  ELSE UnauthorizedError("Access denied to this resource")

\* mutation: ownership is tested before the account status
requireOwnershipOrPermission_ownerFirst(u, resourceOwnerId, permission) ==
  IF u = Null THEN UnauthorizedError("Authentication required")
  ELSE IF u.id = resourceOwnerId THEN Returned
  ELSE IF ~isActive(u) THEN UnauthorizedError("Account is not active")
  ELSE IF User_hasPermission(u, permission) THEN Returned
  ELSE UnauthorizedError("Access denied to this resource")

requireOwnershipOrPermission(u, resourceOwnerId, permission) ==
  IF u = Null THEN UnauthorizedError("Authentication required")
  ELSE IF ~isActive(u) THEN UnauthorizedError("Account is not active")
  ELSE IF u.id = resourceOwnerId THEN Returned
  ELSE IF User_hasPermission(u, permission) THEN Returned
  ELSE UnauthorizedError("Access denied to this resource")

requireOwnershipOrAdmin(u, resourceOwnerId) ==
  IF u = Null THEN UnauthorizedError("Authentication required")
  ELSE IF ~isActive(u) THEN UnauthorizedError("Account is not active")
  ELSE IF u.id = resourceOwnerId THEN Returned
  ELSE IF isAdmin(u) THEN Returned
  ELSE UnauthorizedError("Access denied to this resource")

\* ------------------------------------------------- loading and user actions
\* rows of the role table with their permission rows
AdminRow ==
  [id |-> "r1", name |-> "ADMIN", isSystem |-> TRUE, permissions |-> <<PermUsersDelete>>]
EditorRow ==
  [id |-> "r2", name |-> "EDITOR", isSystem |-> FALSE, permissions |-> <<PermPostsRead>>]
SuperAdminRow ==
  [id |-> "r3", name |-> "SUPER_ADMIN", isSystem |-> TRUE,
   permissions |-> <<PermUsersDelete, PermPostsRead>>]

StoredRoles == {AdminRow, EditorRow, SuperAdminRow}

\* the next Role object to be constructed
NewRole(r) == roles[r] = Null /\ \A q \in RoleRefs : q < r => roles[q] # Null

\* PrismaRoleRepository.toDomain: Role.fromPersistence with a new Permission[]
Repo_loadRole(r, row) ==
  /\ NewRole(r)
  /\ Store([roles EXCEPT ![r] =
              [id |-> row.id, name |-> row.name, description |-> None,
               isSystem |-> row.isSystem, permissions |-> NewRef, updatedAt |-> 0]],
           (NewRef :> row.permissions) @@ permArrays, callerPerms)
  /\ call' = [fn |-> "Repo.loadRole", target |-> r]
  /\ UNCHANGED <<now, callerRoles, user, mw, db, prisma, tasks>>

ExistingRoles == {r \in RoleRefs : Exists(r)}
RoleLists == SeqsUpTo(ExistingRoles, MaxLen)
Statuses == {"ACTIVE", "INACTIVE", "SUSPENDED"}

\* User.create({..., status, roles}): id '' until saved
User_create(status, rs) ==
  /\ user = Null
  /\ user' = [id |-> "", status |-> status, roles |-> rs, updatedAt |-> now]
  /\ call' = [fn |-> "User.create"]
  /\ UNCHANGED <<now, roles, permArrays, callerPerms, callerRoles, mw, db, prisma, tasks>>

\* User.fromPersistence(props)
User_fromPersistence(id, status, rs) ==
  /\ user = Null
  /\ user' = [id |-> id, status |-> status, roles |-> rs, updatedAt |-> 0]
  /\ call' = [fn |-> "User.fromPersistence"]
  /\ UNCHANGED <<now, roles, permArrays, callerPerms, callerRoles, mw, db, prisma, tasks>>

\* A Role[] the calling code holds is either the very array of the user
\* (this.props.roles) or an array of its own.
UserArray == [ofUser |-> TRUE]
OwnArray(items) == [ofUser |-> FALSE, items |-> items]

\* the content of the Role[] the calling code holds
CallerRolesItems == IF callerRoles[1].ofUser THEN user.roles ELSE callerRoles[1].items

\* store the outcome of a method called on the user object; removeRole and
\* setRoles assign a new array to this.props.roles, the other methods keep it
ApplyToUser(fn, args, out) ==
  /\ Len(out.user.roles) <= MaxLen
  /\ user' = out.user
  /\ callerRoles' = IF callerRoles # None /\ callerRoles[1].ofUser
                        /\ fn \in {"User.removeRole", "User.setRoles"}
                     THEN Some(OwnArray(user.roles))
                     ELSE callerRoles
  /\ call' = [fn |-> fn, args |-> args, result |-> out.result]
  /\ UNCHANGED <<now, roles, permArrays, callerPerms, mw, db, prisma, tasks>>

User_assignRole(r) ==
  /\ user # Null /\ Exists(r)
  /\ ApplyToUser("User.assignRole", [role |-> r], assignRole(user, r))

User_assignRoles(rs) ==
  /\ user # Null
  /\ ApplyToUser("User.assignRoles", [roles |-> rs], assignRoles(user, rs))

User_removeRole(roleId) ==
  /\ user # Null
  /\ ApplyToUser("User.removeRole", [roleId |-> roleId], removeRole(user, roleId))

User_setRoles(rs) ==
  /\ user # Null
  /\ ApplyToUser("User.setRoles", [roles |-> rs], setRoles(user, rs))

User_activate ==
  /\ user # Null
  /\ ApplyToUser("User.activate", <<>>, activate(user))

User_deactivate ==
  /\ user # Null
  /\ ApplyToUser("User.deactivate", <<>>, deactivate(user))

User_suspend ==
  /\ user # Null
  /\ ApplyToUser("User.suspend", <<>>, suspend(user))

\* ---------------------------------------------------------------- guard calls
PermissionInputs == {"users:delete", "posts:read"}
PermissionListInputs == {<<>>, <<"users:delete">>, <<"users:delete", "posts:read">>}
RoleNameInputs == {"ADMIN", "EDITOR"}
RoleNameListInputs == {<<>>, <<"ADMIN">>, <<"ADMIN", "EDITOR">>}
OwnerIdInputs == {"", "u1", "u2"}
RoleIdInputs == {"r1", "r2", "r9"}

RequireGuards ==
  {"requirePermission", "requireAnyPermission", "requireAllPermissions", "requireRole",
   "requireAnyRole", "requireAllRoles", "requireAuthenticated", "requireAdmin",
   "requireSuperAdmin", "requireOwnershipOrPermission", "requireOwnershipOrAdmin"}

BooleanGuards ==
  {"hasPermission", "hasAnyPermission", "hasAllPermissions", "hasRole", "hasAnyRole",
   "hasAllRoles"}

\* the arguments of one guard call besides the user
GuardArgs(permission, permissions, role, roleNames, resourceOwnerId) ==
  [permission |-> permission, permissions |-> permissions, role |-> role,
   roles |-> roleNames, resourceOwnerId |-> resourceOwnerId]

ArgsOf(fn) ==
  IF fn \in {"requirePermission", "hasPermission"}
    THEN {GuardArgs(p, <<>>, "", <<>>, "") : p \in PermissionInputs}
  ELSE IF fn \in {"requireAnyPermission", "requireAllPermissions", "hasAnyPermission",
                  "hasAllPermissions"}
    THEN {GuardArgs("", ps, "", <<>>, "") : ps \in PermissionListInputs}
  ELSE IF fn \in {"requireRole", "hasRole"}
    THEN {GuardArgs("", <<>>, n, <<>>, "") : n \in RoleNameInputs}
  ELSE IF fn \in {"requireAnyRole", "requireAllRoles", "hasAnyRole", "hasAllRoles"}
    THEN {GuardArgs("", <<>>, "", ns, "") : ns \in RoleNameListInputs}
  ELSE IF fn = "requireOwnershipOrPermission"
    THEN {GuardArgs(p, <<>>, "", <<>>, o) : p \in PermissionInputs, o \in OwnerIdInputs}
  ELSE IF fn = "requireOwnershipOrAdmin"
    THEN {GuardArgs("", <<>>, "", <<>>, o) : o \in OwnerIdInputs}
  ELSE {GuardArgs("", <<>>, "", <<>>, "")}

\* the exported function fn applied to the user u and the arguments a
Guard(fn, u, a) ==
  CASE fn = "requirePermission" -> requirePermission(u, a.permission)
    [] fn = "requireAnyPermission" -> requireAnyPermission(u, a.permissions)
    [] fn = "requireAllPermissions" -> requireAllPermissions(u, a.permissions)
    [] fn = "requireRole" -> requireRole(u, a.role)
    [] fn = "requireAnyRole" -> requireAnyRole(u, a.roles)
    [] fn = "requireAllRoles" -> requireAllRoles(u, a.roles)
    [] fn = "requireAuthenticated" -> requireAuthenticated(u)
    [] fn = "requireAdmin" -> requireAdmin(u)
    [] fn = "requireSuperAdmin" -> requireSuperAdmin(u)
    [] fn = "requireOwnershipOrPermission" ->
         requireOwnershipOrPermission(u, a.resourceOwnerId, a.permission)
    [] fn = "requireOwnershipOrAdmin" -> requireOwnershipOrAdmin(u, a.resourceOwnerId)
    [] fn = "hasPermission" -> hasPermission(u, a.permission)
    [] fn = "hasAnyPermission" -> hasAnyPermission(u, a.permissions)
    [] fn = "hasAllPermissions" -> hasAllPermissions(u, a.permissions)
    [] fn = "hasRole" -> hasRole(u, a.role)
    [] fn = "hasAnyRole" -> hasAnyRole(u, a.roles)
    [] fn = "hasAllRoles" -> hasAllRoles(u, a.roles)

\* with a null user no guard reads its other arguments: one call each
NullUserArgs(fn) == CHOOSE a \in ArgsOf(fn) : TRUE

\* a guard is called with the loaded user, or with null
CallGuard(fn, withUser, a) ==
  /\ IF withUser THEN user # Null ELSE a = NullUserArgs(fn)
  /\ call' = [fn |-> fn, withUser |-> withUser, args |-> a,
              result |-> Guard(fn, IF withUser THEN user ELSE Null, a)]
  /\ UNCHANGED <<now, roles, permArrays, callerPerms, callerRoles, user, mw, db, prisma, tasks>>

\* user.hasPermission(permission) called on the loaded user
User_hasPermissionCall(permission) ==
  /\ user # Null
  /\ call' = [fn |-> "User.hasPermission", args |-> [permission |-> permission],
              result |-> ReturnedValue(User_hasPermission(user, permission))]
  /\ UNCHANGED <<now, roles, permArrays, callerPerms, callerRoles, user, mw, db, prisma, tasks>>

\* user.getAllPermissions() called on the loaded user
User_getAllPermissionsCall ==
  /\ user # Null
  /\ call' = [fn |-> "User.getAllPermissions", args |-> <<>>,
              result |-> ReturnedValue(User_getAllPermissions(user))]
  /\ UNCHANGED <<now, roles, permArrays, callerPerms, callerRoles, user, mw, db, prisma, tasks>>

Next ==
  \/ \E r \in RoleRefs, row \in StoredRoles : Repo_loadRole(r, row)
  \/ \E st \in Statuses, rs \in RoleLists : User_create(st, rs)
  \/ \E st \in Statuses, rs \in RoleLists : User_fromPersistence("u1", st, rs)
  \/ \E r \in RoleRefs : User_assignRole(r)
  \/ \E rs \in RoleLists : User_assignRoles(rs)
  \/ \E id \in RoleIdInputs : User_removeRole(id)
  \/ \E rs \in RoleLists : User_setRoles(rs)
  \/ User_activate
  \/ User_deactivate
  \/ User_suspend
  \/ \E p \in PermissionInputs : User_hasPermissionCall(p)
  \/ User_getAllPermissionsCall
  \/ \E fn \in RequireGuards \cup BooleanGuards, w \in BOOLEAN :
       \E a \in ArgsOf(fn) : CallGuard(fn, w, a)

Spec == Init /\ [][Next]_vars

\* Entities touched as the clock advances: stored roles and a stored user are
\* loaded, permissions are added to roles and roles assigned to the user.
TouchNext ==
  \/ Tick
  \/ \E r \in RoleRefs, row \in StoredRoles : Repo_loadRole(r, row)
  \/ \E rs \in RoleLists : User_fromPersistence("u1", "ACTIVE", rs)
  \/ \E r \in RoleRefs : User_assignRole(r)
  \/ \E r \in RoleRefs, p \in PermissionPool : Role_addPermission(r, p)

SpecTouch == Init /\ [][TouchNext]_vars

\* ------------------------------------------------ removals as the clock advances
RemoveNext ==
  \/ Tick
  \/ \E r \in RoleRefs, row \in StoredRoles : Repo_loadRole(r, row)
  \/ \E rs \in RoleLists : User_fromPersistence("u1", "ACTIVE", rs)
  \/ \E r \in RoleRefs, id \in PermissionIdInputs : Role_removePermission(r, id)
  \/ \E id \in RoleIdInputs : User_removeRole(id)

SpecRemove == Init /\ [][RemoveNext]_vars

\* ------------------------------------------- getters and the arrays they return
\* arr.reverse()
Reverse(arr) == [i \in 1..Len(arr) |-> arr[Len(arr) + 1 - i]]

\* get permissions(): return [...this.props.permissions], held by the calling code
Role_permissionsGetter(r) ==
  /\ Exists(r)
  /\ Store(roles, (NewRef :> PermsOf(roles[r])) @@ permArrays, Some(NewRef))
  /\ call' = [fn |-> "Role.permissions", target |-> r]
  /\ UNCHANGED <<now, callerRoles, user, mw, db, prisma, tasks>>

\* mutation: the getter returns this.props.roles itself
User_rolesGetter_noCopy ==
  /\ user # Null
  /\ callerRoles' = Some(UserArray)
  /\ call' = [fn |-> "User.roles"]
  /\ UNCHANGED <<now, roles, permArrays, callerPerms, user, mw, db, prisma, tasks>>

\* get roles(): return [...this.props.roles], held by the calling code
User_rolesGetter ==
  /\ user # Null
  /\ callerRoles' = Some(OwnArray(user.roles))
  /\ call' = [fn |-> "User.roles"]
  /\ UNCHANGED <<now, roles, permArrays, callerPerms, user, mw, db, prisma, tasks>>

\* the calling code pops from / reverses the Permission[] it holds
Caller_popPerm ==
  /\ callerPerms # None
  /\ Len(permArrays[callerPerms[1]]) > 0
  /\ permArrays' = [permArrays EXCEPT ![callerPerms[1]] = SubSeq(@, 1, Len(@) - 1)]
  /\ call' = [fn |-> "Caller.popPerm"]
  /\ UNCHANGED <<now, roles, callerPerms, callerRoles, user, mw, db, prisma, tasks>>

Caller_reversePerms ==
  /\ callerPerms # None
  /\ Len(permArrays[callerPerms[1]]) > 1
  /\ permArrays' = [permArrays EXCEPT ![callerPerms[1]] = Reverse(@)]
  /\ call' = [fn |-> "Caller.reversePerms"]
  /\ UNCHANGED <<now, roles, callerPerms, callerRoles, user, mw, db, prisma, tasks>>

\* the calling code replaces the content of the Role[] it holds, in place
Caller_writeRoles(fn, items) ==
  /\ callerRoles # None
  /\ Len(items) <= MaxLen
  /\ IF callerRoles[1].ofUser
     THEN user' = [user EXCEPT !.roles = items] /\ UNCHANGED callerRoles
     ELSE callerRoles' = Some(OwnArray(items)) /\ UNCHANGED user
  /\ call' = [fn |-> fn]
  /\ UNCHANGED <<now, roles, permArrays, callerPerms, mw, db, prisma, tasks>>

Caller_pushRole(r) ==
  /\ Exists(r)
  /\ callerRoles # None
  /\ Caller_writeRoles("Caller.pushRole", Append(CallerRolesItems, r))

Caller_popRole ==
  /\ callerRoles # None
  /\ Len(CallerRolesItems) > 0
  /\ Caller_writeRoles("Caller.popRole", SubSeq(CallerRolesItems, 1, Len(CallerRolesItems) - 1))

Caller_reverseRoles ==
  /\ callerRoles # None
  /\ Len(CallerRolesItems) > 1
  /\ Caller_writeRoles("Caller.reverseRoles", Reverse(CallerRolesItems))

\* stored roles and a stored user are loaded; the calling code reads the
\* getters and changes the arrays it got
GetterNext ==
  \/ \E r \in RoleRefs, row \in StoredRoles : Repo_loadRole(r, row)
  \/ \E rs \in RoleLists : User_fromPersistence("u1", "ACTIVE", rs)
  \/ \E r \in RoleRefs : Role_permissionsGetter(r)
  \/ User_rolesGetter
  \/ \E p \in {PermUsersDelete, PermPostsRead} : Caller_pushPerm(p)
  \/ Caller_popPerm
  \/ Caller_reversePerms
  \/ \E r \in RoleRefs : Caller_pushRole(r)
  \/ Caller_popRole
  \/ Caller_reverseRoles

SpecGetter == Init /\ [][GetterNext]_vars

\* ----------------------------------------------------------- Permission.create
PermissionNameInputs == {"Delete users", "", "  "}
ResourceInputs == {"users", "", " ", "us er", "a:b", "Users", "user-profiles_2"}
ActionInputs == {"delete", "", " ", "a:b", "READ", "re ad"}

\* Permission.create({name, description: null, resource, action})
Permission_create(name, resource, action) ==
  /\ call' = [fn |-> "Permission.create",
              args |-> [name |-> name, resource |-> resource, action |-> action],
              result |-> Permission_createResult(
                           [name |-> name, resource |-> resource, action |-> action])]
  /\ UNCHANGED <<now, roles, permArrays, callerPerms, callerRoles, user, mw, db, prisma, tasks>>

\* mutation: the persisted record loses the id
Permission_toPersistence_noId(p) ==
  [id |-> "", name |-> p.name, resource |-> p.resource, action |-> p.action]

\* Permission.toPersistence: a fresh record of the props
Permission_toPersistence(p) ==
  [id |-> p.id, name |-> p.name, resource |-> p.resource, action |-> p.action]

\* Permission.fromPersistence: new Permission(props), no validation
Permission_fromPersistence(props) ==
  [id |-> props.id, name |-> props.name, resource |-> props.resource,
   action |-> props.action]

\* the permissions Permission.create returns for the inputs above
CreatedPermissions ==
  {Permission_createResult([name |-> n, resource |-> r, action |-> a]).value :
     <<n, r, a>> \in
       {t \in PermissionNameInputs \X ResourceInputs \X ActionInputs :
          ~Permission_createResult(
             [name |-> t[1], resource |-> t[2], action |-> t[3]]).thrown}}

\* Permission.fromPersistence(p.toPersistence()) and
\* p.matchesString(p.getPermissionString()) on a permission p
Permission_roundTrip(p) ==
  /\ call' = [fn |-> "Permission.roundTrip", target |-> p,
              result |-> ReturnedValue(
                [restored |-> Permission_fromPersistence(Permission_toPersistence(p)),
                 matches |-> matchesString(p, getPermissionString(p))])]
  /\ UNCHANGED <<now, roles, permArrays, callerPerms, callerRoles, user, mw, db, prisma, tasks>>

PermissionNext ==
  \/ \E n \in PermissionNameInputs, r \in ResourceInputs, a \in ActionInputs :
       Permission_create(n, r, a)
  \/ \E p \in PermissionPool \cup CreatedPermissions : Permission_roundTrip(p)

SpecPermission == Init /\ [][PermissionNext]_vars

\* ---------------------------------------------------------- withAuthorization
MaxChecks == 2     \* most fields set in one AuthorizationConfig (besides the full one)

\* AuthorizationConfig: every field optional (None when absent)
FullConfig ==
  [permission |-> Some("users:delete"),
   anyPermissions |-> Some(<<"users:delete", "posts:read">>),
   allPermissions |-> Some(<<"users:delete", "posts:read">>),
   role |-> Some("EDITOR"),
   anyRoles |-> Some(<<"ADMIN", "EDITOR">>),
   allRoles |-> Some(<<"EDITOR", "SUPER_ADMIN">>),
   requireAdmin |-> Some(TRUE),
   requireSuperAdmin |-> Some(TRUE),
   customCheck |-> Some("customCheck"),
   errorMessage |-> Some("Only company email addresses allowed")]

EmptyConfig ==
  [permission |-> None, anyPermissions |-> None, allPermissions |-> None, role |-> None,
   anyRoles |-> None, allRoles |-> None, requireAdmin |-> None, requireSuperAdmin |-> None,
   customCheck |-> None, errorMessage |-> None]

\* number of fields a config sets
One(opt) == IF opt = None THEN 0 ELSE 1
FieldsSet(c) ==
  One(c.permission) + One(c.anyPermissions) + One(c.allPermissions) + One(c.role)
  + One(c.anyRoles) + One(c.allRoles) + One(c.requireAdmin) + One(c.requireSuperAdmin)
  + One(c.customCheck) + One(c.errorMessage)

\* each field absent, as in FullConfig, or falsy ('' / false) where the type has one
ConfigInputs ==
  {FullConfig} \cup
  {c \in [permission : {None, FullConfig.permission, Some("")},
          anyPermissions : {None, FullConfig.anyPermissions},
          allPermissions : {None, FullConfig.allPermissions},
          role : {None, FullConfig.role, Some("")},
          anyRoles : {None, FullConfig.anyRoles},
          allRoles : {None, FullConfig.allRoles},
          requireAdmin : {None, Some(TRUE), Some(FALSE)},
          requireSuperAdmin : {None, Some(TRUE), Some(FALSE)},
          customCheck : {None, FullConfig.customCheck},
          errorMessage : {None, FullConfig.errorMessage, Some("")}] :
     FieldsSet(c) <= MaxChecks}

\* if (config.x): undefined, '' and false are falsy, every array is truthy
TruthyString(opt) == opt # None /\ opt[1] # ""
TruthyBoolean(opt) == opt # None /\ opt[1]
TruthyObject(opt) == opt # None

\* mutation: the role checks are moved in front of the permission checks
SyncChecks_rolesFirst ==
  <<"role", "anyRoles", "allRoles", "permission", "anyPermissions", "allPermissions",
    "requireAdmin", "requireSuperAdmin">>

\* the guards of the try block, in the order of the if statements
SyncChecks ==
  <<"permission", "anyPermissions", "allPermissions", "role", "anyRoles", "allRoles",
    "requireAdmin", "requireSuperAdmin">>

\* the condition of the if statement of a check
Configured(c, name) ==
  CASE name = "permission" -> TruthyString(c.permission)
    [] name = "anyPermissions" -> TruthyObject(c.anyPermissions)
    [] name = "allPermissions" -> TruthyObject(c.allPermissions)
    [] name = "role" -> TruthyString(c.role)
    [] name = "anyRoles" -> TruthyObject(c.anyRoles)
    [] name = "allRoles" -> TruthyObject(c.allRoles)
    [] name = "requireAdmin" -> TruthyBoolean(c.requireAdmin)
    [] name = "requireSuperAdmin" -> TruthyBoolean(c.requireSuperAdmin)
    [] name = "customCheck" -> TruthyObject(c.customCheck)

\* the guard the if statement of a check calls
RunGuard(c, name, u) ==
  CASE name = "permission" -> requirePermission(u, c.permission[1])
    [] name = "anyPermissions" -> requireAnyPermission(u, c.anyPermissions[1])
    [] name = "allPermissions" -> requireAllPermissions(u, c.allPermissions[1])
    [] name = "role" -> requireRole(u, c.role[1])
    [] name = "anyRoles" -> requireAnyRole(u, c.anyRoles[1])
    [] name = "allRoles" -> requireAllRoles(u, c.allRoles[1])
    [] name = "requireAdmin" -> requireAdmin(u)
    [] name = "requireSuperAdmin" -> requireSuperAdmin(u)

\* the guards run from the k-th on: the first throw leaves the try block
RECURSIVE RunChecks(_, _, _, _)
RunChecks(c, u, k, evaluated) ==
  IF k > Len(SyncChecks) THEN [evaluated |-> evaluated, failure |-> None]
  ELSE IF ~Configured(c, SyncChecks[k]) THEN RunChecks(c, u, k + 1, evaluated)
  ELSE LET res == RunGuard(c, SyncChecks[k], u) IN
       IF res.thrown
         THEN [evaluated |-> Append(evaluated, SyncChecks[k]), failure |-> Some(res)]
       ELSE RunChecks(c, u, k + 1, Append(evaluated, SyncChecks[k]))

Response401 ==
  [status |-> 401, error |-> "Authentication required",
   message |-> "You must be logged in to access this resource"]
Response403(message) == [status |-> 403, error |-> "Unauthorized", message |-> message]
ResponseOk == [status |-> 200, error |-> "", message |-> "ok"]

\* one invocation of the returned route function
MwEntered(c, withUser) ==
  [pc |-> "entered", config |-> c, withUser |-> withUser, evaluated |-> <<>>,
   custom |-> None, handlerCalls |-> 0, handlerUser |-> None, handled |-> None,
   response |-> None, thrown |-> None]

\* return NextResponse.json(...)
Respond(m, response) == [m EXCEPT !.pc = "done", !.response = Some(response)]

\* mutation: every caught error is answered with a 403
Catch_everythingDenied(m, error) == Respond(m, Response403(error.message))

\* catch (error): UnauthorizedError becomes a 403, anything else is re-thrown
Catch(m, error) ==
  IF error.type = "UnauthorizedError" THEN Respond(m, Response403(error.message))
  ELSE [m EXCEPT !.pc = "done", !.thrown = Some(error)]

\* return await handler(request, { ...context, user })
CallHandler(m, u) ==
  [m EXCEPT !.pc = "handler", !.handlerCalls = @ + 1, !.handlerUser = Some(u)]

\* mutation: the early return for a missing user is left to the guards
Enter_noEarlyReturn(c, u) ==
  LET m == MwEntered(c, u # Null)
      run == RunChecks(c, u, 1, <<>>)
      checked == [m EXCEPT !.evaluated = run.evaluated]
  IN IF run.failure # None THEN Catch(checked, run.failure[1])
     ELSE IF u = Null THEN Respond(checked, Response401)
     ELSE IF Configured(c, "customCheck")
       THEN [checked EXCEPT !.pc = "customCheck", !.evaluated = Append(@, "customCheck")]
     ELSE CallHandler(checked, u)

\* the route function up to its first await
Enter(c, u) ==
  LET m == MwEntered(c, u # Null) IN
  IF u = Null THEN Respond(m, Response401)
  ELSE LET run == RunChecks(c, u, 1, <<>>)
           checked == [m EXCEPT !.evaluated = run.evaluated]
       IN IF run.failure # None THEN Catch(checked, run.failure[1])
          ELSE IF Configured(c, "customCheck")
            THEN [checked EXCEPT !.pc = "customCheck", !.evaluated = Append(@, "customCheck")]
          ELSE CallHandler(checked, u)

\* mutation: a false result throws a plain Error
AfterCustomCheck_plainError(m, u, outcome) ==
  LET settled == [m EXCEPT !.custom = Some(outcome)] IN
  IF outcome.thrown THEN Catch(settled, outcome)
  ELSE IF ~outcome.value
    THEN Catch(settled,
               Threw("Error", IF TruthyString(m.config.errorMessage)
                              THEN m.config.errorMessage[1]
                              ELSE "Custom authorization check failed"))
  ELSE CallHandler(settled, u)

\* const result = await config.customCheck(user); if (!result) throw ...
AfterCustomCheck(m, u, outcome) ==
  LET settled == [m EXCEPT !.custom = Some(outcome)] IN
  IF outcome.thrown THEN Catch(settled, outcome)
  ELSE IF ~outcome.value
    THEN Catch(settled,
               UnauthorizedError(IF TruthyString(m.config.errorMessage)
                                 THEN m.config.errorMessage[1]
                                 ELSE "Custom authorization check failed"))
  ELSE CallHandler(settled, u)

\* the awaited handler returns a response or throws
AfterHandler(m, outcome) ==
  LET settled == [m EXCEPT !.handled = Some(outcome)] IN
  IF outcome.thrown THEN Catch(settled, outcome)
  ELSE Respond(settled, outcome.value)

\* ------------------------------------------------------------ route actions
StoredRoleLists == {<<>>, <<AdminRow>>, <<EditorRow>>, <<EditorRow, SuperAdminRow>>}
StoredUsers == {[id |-> "u1", status |-> st, roles |-> rl] : st \in Statuses, rl \in StoredRoleLists}

\* PrismaUserRepository.toDomain: the user with its roles and their permissions
Repo_loadUser(row) ==
  /\ user = Null
  /\ \A r \in RoleRefs : roles[r] = Null
  /\ Len(row.roles) <= MaxRoles
  /\ roles' = [r \in RoleRefs |->
                 IF r <= Len(row.roles)
                 THEN [id |-> row.roles[r].id, name |-> row.roles[r].name, description |-> None,
                       isSystem |-> row.roles[r].isSystem, permissions |-> r, updatedAt |-> 0]
                 ELSE Null]
  /\ permArrays' = [r \in 1..Len(row.roles) |-> row.roles[r].permissions]
  /\ user' = [id |-> row.id, status |-> row.status,
              roles |-> [r \in 1..Len(row.roles) |-> r], updatedAt |-> 0]
  /\ call' = [fn |-> "Repo.loadUser"]
  /\ UNCHANGED <<now, callerPerms, callerRoles, mw, db, prisma, tasks>>

CustomCheckOutcomes ==
  {ReturnedValue(TRUE), ReturnedValue(FALSE),
   UnauthorizedError("Access denied to this tenant"), Threw("Error", "tenant lookup failed")}

HandlerOutcomes ==
  {ReturnedValue(ResponseOk), UnauthorizedError("Permission denied: users:update"),
   ValidationError("Name cannot be empty")}

\* the route function is invoked with a request that carries the user, or none
Mw_request(c, withUser) ==
  /\ mw.pc \in {"idle", "done"}
  /\ withUser => user # Null
  /\ mw' = Enter(c, IF withUser THEN user ELSE Null)
  /\ call' = NoCall
  /\ UNCHANGED <<now, roles, permArrays, callerPerms, callerRoles, user, db, prisma, tasks>>

\* the promise of customCheck settles
Mw_customCheckSettled(outcome) ==
  /\ mw.pc = "customCheck"
  /\ mw' = AfterCustomCheck(mw, user, outcome)
  /\ call' = NoCall
  /\ UNCHANGED <<now, roles, permArrays, callerPerms, callerRoles, user, db, prisma, tasks>>

\* the promise of the handler settles
Mw_handlerSettled(outcome) ==
  /\ mw.pc = "handler"
  /\ mw' = AfterHandler(mw, outcome)
  /\ call' = NoCall
  /\ UNCHANGED <<now, roles, permArrays, callerPerms, callerRoles, user, db, prisma, tasks>>

MwNext ==
  \/ \E row \in StoredUsers : Repo_loadUser(row)
  \/ \E c \in ConfigInputs, w \in BOOLEAN : Mw_request(c, w)
  \/ \E o \in CustomCheckOutcomes : Mw_customCheckSettled(o)
  \/ \E o \in HandlerOutcomes : Mw_handlerSettled(o)

SpecMw == Init /\ [][MwNext]_vars

\* ------------------------------------------------------ IndexedDB object stores
\* An object store is the set of its records, keyed by id (keyPath: 'id').

\* db.get(store, id): the record or undefined
Get(store, id) ==
  IF \E x \in store : x.id = id THEN Some(CHOOSE x \in store : x.id = id) ELSE None

\* db.getFromIndex(store, index, value) on the index of one field
GetFromIndex(store, field, value) ==
  IF \E x \in store : x[field] = value
  THEN Some(CHOOSE x \in store : x[field] = value) ELSE None

\* createIndex(name, field, {unique: true}): another record holds the value
UniqueViolated(store, row, field) == \E x \in store : x.id # row.id /\ x[field] = row[field]

\* db.put(store, row): insert, or replace the record with the same key
Put(store, row) == {x \in store : x.id # row.id} \cup {row}

\* the DOMException a put rejects with when a unique index is violated
ConstraintError == Threw("ConstraintError", "Unable to add key to index: uniqueness")

\* uuidv4(): an identifier no stored record carries
Uuids == <<"id1", "id2", "id3">>
UsedIds(d) == {x.id : x \in d.permissions \cup d.roles \cup d.users}
HasUuid(d) == \E i \in 1..Len(Uuids) : Uuids[i] \notin UsedIds(d)
uuidv4(d) ==
  Uuids[CHOOSE i \in 1..Len(Uuids) :
          /\ Uuids[i] \notin UsedIds(d)
          /\ \A j \in 1..(i - 1) : Uuids[j] \in UsedIds(d)]

\* ids of the entities of a list: list.map((x) => x.id)
IdsOf(list) == [i \in 1..Len(list) |-> list[i].id]

\* IndexedDBPermissionRepository.findById
IdbPermission_findById(d, id) ==
  LET data == Get(d.permissions, id) IN
  IF data = None THEN Null ELSE Permission_fromPersistence(data[1])

\* IndexedDBPermissionRepository.save
IdbPermission_save(d, permission) ==
  LET p == Permission_toPersistence(permission)
      data == [p EXCEPT !.id = IF p.id = "" THEN uuidv4(d) ELSE p.id]
  IN IF UniqueViolated(d.permissions, data, "name")
        \/ \E x \in d.permissions :
             x.id # data.id /\ x.resource = data.resource /\ x.action = data.action
     THEN [db |-> d, result |-> ConstraintError]
     ELSE [db |-> [d EXCEPT !.permissions = Put(@, data)],
           result |-> ReturnedValue(Permission_fromPersistence(data))]

\* IndexedDBRoleRepository.toDomain: the permissions that are found, in order
IdbRole_toDomain(d, roleData) ==
  LET found == SelectSeq(roleData.permissionIds,
                         LAMBDA id : IdbPermission_findById(d, id) # Null)
  IN [id |-> roleData.id, name |-> roleData.name, isSystem |-> roleData.isSystem,
      permissions |-> [i \in 1..Len(found) |-> IdbPermission_findById(d, found[i])]]

\* IndexedDBRoleRepository.findById
IdbRole_findById(d, id) ==
  LET data == Get(d.roles, id) IN
  IF data = None THEN Null ELSE IdbRole_toDomain(d, data[1])

\* IndexedDBRoleRepository.findByName
IdbRole_findByName(d, name) ==
  LET data == GetFromIndex(d.roles, "name", name) IN
  IF data = None THEN Null ELSE IdbRole_toDomain(d, data[1])

\* mutation: the permission ids are not written
IdbRole_save_noPermissionIds(d, role) ==
  LET roleData == [id |-> IF role.id = "" THEN uuidv4(d) ELSE role.id, name |-> role.name,
                   isSystem |-> role.isSystem, permissionIds |-> <<>>]
  IN IF UniqueViolated(d.roles, roleData, "name")
     THEN [db |-> d, result |-> ConstraintError]
     ELSE LET d2 == [d EXCEPT !.roles = Put(@, roleData)] IN
          [db |-> d2, result |-> ReturnedValue(IdbRole_toDomain(d2, roleData))]

\* IndexedDBRoleRepository.save
IdbRole_save(d, role) ==
  LET roleData == [id |-> IF role.id = "" THEN uuidv4(d) ELSE role.id, name |-> role.name,
                   isSystem |-> role.isSystem, permissionIds |-> IdsOf(role.permissions)]
  IN IF UniqueViolated(d.roles, roleData, "name")
     THEN [db |-> d, result |-> ConstraintError]
     ELSE LET d2 == [d EXCEPT !.roles = Put(@, roleData)] IN
          [db |-> d2, result |-> ReturnedValue(IdbRole_toDomain(d2, roleData))]

\* String.prototype.toLowerCase
UpperCaseLetters == "ABCDEFGHIJKLMNOPQRSTUVWXYZ"
LowerCaseLetters == "abcdefghijklmnopqrstuvwxyz"
UpperToLower ==
  [c \in {CharAt(UpperCaseLetters, i) : i \in 1..Len(UpperCaseLetters)} |->
     CharAt(LowerCaseLetters,
            CHOOSE i \in 1..Len(UpperCaseLetters) : CharAt(UpperCaseLetters, i) = c)]
LowerOf(c) == IF c \in DOMAIN UpperToLower THEN UpperToLower[c] ELSE c
RECURSIVE toLowerCase(_)
toLowerCase(s) ==
  IF Len(s) = 0 THEN "" ELSE LowerOf(CharAt(s, 1)) \o toLowerCase(SubSeq(s, 2, Len(s)))

\* Email.create(email).getValue() of a well-formed address
Email_create(email) == toLowerCase(email)

\* IndexedDBUserRepository.toDomain: the roles that are found, in order
IdbUser_toDomain(d, userData) ==
  LET found == SelectSeq(userData.roleIds, LAMBDA id : IdbRole_findById(d, id) # Null)
  IN [id |-> userData.id, email |-> Email_create(userData.email), name |-> userData.name,
      status |-> userData.status,
      roles |-> [i \in 1..Len(found) |-> IdbRole_findById(d, found[i])],
      updatedAt |-> userData.updatedAt]

\* IndexedDBUserRepository.findById
IdbUser_findById(d, id) ==
  LET data == Get(d.users, id) IN
  IF data = None THEN Null ELSE IdbUser_toDomain(d, data[1])

\* IndexedDBUserRepository.findByEmail
IdbUser_findByEmail(d, email) ==
  LET data == GetFromIndex(d.users, "email", email) IN
  IF data = None THEN Null ELSE IdbUser_toDomain(d, data[1])

\* IndexedDBUserRepository.emailExists(email), no user excluded
IdbUser_emailExists(d, email) == IdbUser_findByEmail(d, email) # Null

\* IndexedDBUserRepository.save
IdbUser_save(d, u) ==
  LET userData == [id |-> IF u.id = "" THEN uuidv4(d) ELSE u.id, email |-> u.email,
                   name |-> u.name, status |-> u.status, updatedAt |-> u.updatedAt,
                   roleIds |-> IdsOf(u.roles)]
  IN IF UniqueViolated(d.users, userData, "email")
     THEN [db |-> d, result |-> ConstraintError]
     ELSE LET d2 == [d EXCEPT !.users = Put(@, userData)] IN
          [db |-> d2, result |-> ReturnedValue(IdbUser_toDomain(d2, userData))]

\* ----------------------------------------------- repository calls (IndexedDB)
\* permissions as Permission.create returns them, not yet saved
NewPermissions == {[p EXCEPT !.id = ""] : p \in {PermUsersDelete, PermPostsRead}}

\* Permission, Role and User objects as the repositories return them
StoredPermissions(d) == {Permission_fromPersistence(x) : x \in d.permissions}
StoredRoleEntities(d) == {IdbRole_toDomain(d, x) : x \in d.roles}

\* roles to save: new ('' id) or loaded, over saved and unsaved permissions
RoleInputs(d) ==
  {[id |-> id, name |-> n, isSystem |-> (n = "ADMIN"), permissions |-> ps] :
     id \in {""} \cup {x.id : x \in d.roles}, n \in {"USER", "ADMIN"},
     ps \in SeqsUpTo(StoredPermissions(d) \cup {[PermPostsRead EXCEPT !.id = ""]}, MaxLen)}

\* users to save: new ('' id) or loaded, over saved and unsaved roles
UserInputs(d) ==
  {[id |-> id, email |-> e, name |-> "Ann", status |-> "ACTIVE", roles |-> rs,
    updatedAt |-> now] :
     id \in {""} \cup {x.id : x \in d.users}, e \in {"ann@example.com", "bob@example.com"},
     rs \in SeqsUpTo(StoredRoleEntities(d)
                     \cup {[id |-> "", name |-> "EDITOR", isSystem |-> FALSE,
                            permissions |-> <<>>]}, MaxLen)}

\* permRepo.save(permission)
PermRepo_save(permission) ==
  /\ HasUuid(db)
  /\ LET out == IdbPermission_save(db, permission) IN
     /\ db' = out.db
     /\ call' = [fn |-> "permRepo.save", args |-> [permission |-> permission],
                 result |-> out.result]
  /\ UNCHANGED <<now, roles, permArrays, callerPerms, callerRoles, user, mw, prisma, tasks>>

\* saved = await roleRepo.save(role); found = await roleRepo.findById(saved.id)
RoleRepo_saveThenFindById(role) ==
  /\ HasUuid(db)
  /\ LET out == IdbRole_save(db, role) IN
     /\ db' = out.db
     /\ call' = [fn |-> "roleRepo.save", args |-> [role |-> role],
                 result |-> out.result,
                 found |-> IF out.result.thrown THEN Null
                           ELSE IdbRole_findById(out.db, out.result.value.id)]
  /\ UNCHANGED <<now, roles, permArrays, callerPerms, callerRoles, user, mw, prisma, tasks>>

\* saved = await userRepo.save(user); found = await userRepo.findById(saved.id)
UserRepo_saveThenFindById(u) ==
  /\ HasUuid(db)
  /\ LET out == IdbUser_save(db, u) IN
     /\ db' = out.db
     /\ call' = [fn |-> "userRepo.save", args |-> [user |-> u],
                 result |-> out.result,
                 found |-> IF out.result.thrown THEN Null
                           ELSE IdbUser_findById(out.db, out.result.value.id)]
  /\ UNCHANGED <<now, roles, permArrays, callerPerms, callerRoles, user, mw, prisma, tasks>>

IdbNext ==
  \/ \E p \in NewPermissions : PermRepo_save(p)
  \/ \E role \in RoleInputs(db) : RoleRepo_saveThenFindById(role)
  \/ \E u \in UserInputs(db) : UserRepo_saveThenFindById(u)

SpecIdb == Init /\ [][IdbNext]_vars

\* ------------------------------------------------------------ CreateUserUseCase
ConflictError(message) == Threw("ConflictError", message)
NotFoundError(entityName, identifier) ==
  Threw("NotFoundError", entityName \o " with identifier '" \o identifier \o "' not found")

\* mutation: the default role is used even when roleIds are given
CreateUser_getRoles_alwaysDefault(d, dto) ==
  LET defaultRole == IdbRole_findByName(d, "USER") IN
  ReturnedValue(IF defaultRole # Null THEN <<defaultRole>> ELSE <<>>)

\* the roles of the new user: those of dto.roleIds, or the role named USER
CreateUser_getRoles(d, dto) ==
  IF dto.roleIds # None /\ Len(dto.roleIds[1]) > 0
  THEN LET ids == dto.roleIds[1]
           missing == {i \in 1..Len(ids) : IdbRole_findById(d, ids[i]) = Null}
       IN IF missing # {}
          THEN NotFoundError("Role", ids[CHOOSE i \in missing : \A j \in missing : i <= j])
          ELSE ReturnedValue([i \in 1..Len(ids) |-> IdbRole_findById(d, ids[i])])
  ELSE LET defaultRole == IdbRole_findByName(d, "USER") IN
       ReturnedValue(IF defaultRole # Null THEN <<defaultRole>> ELSE <<>>)

\* CreateUserUseCase.toDto
CreateUser_toDto(u) ==
  [id |-> u.id, email |-> u.email, name |-> u.name, status |-> u.status,
   roles |-> [i \in 1..Len(u.roles) |-> u.roles[i].name]]

\* a finished call
TaskDone(task, result) == [task EXCEPT !.pc = "done", !.result = result]

\* execute(dto) up to `await this.userRepository.emailExists(email)`
CreateUser_execute(t, dto) ==
  /\ tasks[t].pc = "idle"
  /\ tasks' = [tasks EXCEPT ![t] =
                 [pc |-> "emailExists", fn |-> "CreateUserUseCase.execute", dto |-> dto,
                  email |-> Email_create(dto.email), roles |-> <<>>, result |-> Returned]]
  /\ call' = NoCall
  /\ UNCHANGED <<now, roles, permArrays, callerPerms, callerRoles, user, mw, db, prisma>>

\* emailExists settles: throw ConflictError, or go on to fetch the roles
CreateUser_emailExists(t) ==
  /\ tasks[t].pc = "emailExists"
  /\ tasks' = [tasks EXCEPT ![t] =
                 IF IdbUser_emailExists(db, @.email)
                 THEN TaskDone(@, ConflictError("Email already exists"))
                 ELSE [@ EXCEPT !.pc = "roles"]]
  /\ call' = NoCall
  /\ UNCHANGED <<now, roles, permArrays, callerPerms, callerRoles, user, mw, db, prisma>>

\* the role lookups settle: throw NotFoundError, or go on to create and save
CreateUser_rolesFetched(t) ==
  /\ tasks[t].pc = "roles"
  /\ LET got == CreateUser_getRoles(db, tasks[t].dto) IN
     tasks' = [tasks EXCEPT ![t] =
                 IF got.thrown THEN TaskDone(@, got)
                 ELSE [@ EXCEPT !.pc = "save", !.roles = got.value]]
  /\ call' = NoCall
  /\ UNCHANGED <<now, roles, permArrays, callerPerms, callerRoles, user, mw, db, prisma>>

\* User.create(...), `await this.userRepository.save(user)`, return the DTO
CreateUser_saved(t) ==
  /\ tasks[t].pc = "save"
  /\ HasUuid(db)
  /\ LET u == [id |-> "", email |-> tasks[t].email, name |-> tasks[t].dto.name,
               status |-> "ACTIVE", roles |-> tasks[t].roles, updatedAt |-> now]
         out == IdbUser_save(db, u)
     IN /\ db' = out.db
        /\ tasks' = [tasks EXCEPT ![t] =
                       TaskDone(@, IF out.result.thrown THEN out.result
                                   ELSE ReturnedValue(CreateUser_toDto(out.result.value)))]
  /\ call' = NoCall
  /\ UNCHANGED <<now, roles, permArrays, callerPerms, callerRoles, user, mw, prisma>>

\* the roles the seed scripts save, and the dto values of the calls
SeedRoles ==
  {[id |-> "", name |-> n, isSystem |-> TRUE, permissions |-> <<>>] : n \in {"USER", "ADMIN"}}
RoleIdListInputs == {None, Some(<<>>), Some(<<"id1", "id2">>), Some(<<"id1", "id9">>)}
CreateUserDtos ==
  [email : {"Ann@Example.com", "ann@example.com", "bob@example.com"}, name : {"Ann"},
   roleIds : RoleIdListInputs]

CreateUserNext ==
  \/ \E role \in SeedRoles : RoleRepo_saveThenFindById(role)
  \/ \E t \in TaskIds, dto \in CreateUserDtos : CreateUser_execute(t, dto)
  \/ \E t \in TaskIds : CreateUser_emailExists(t)
  \/ \E t \in TaskIds : CreateUser_rolesFetched(t)
  \/ \E t \in TaskIds : CreateUser_saved(t)

SpecCreateUser == Init /\ [][CreateUserNext]_vars

\* ------------------------------------------ IndexedDBRoleRepository.assignToUser
\* assignToUser(userId, roleId) up to `await db.get('users', userId)`
AssignToUser_call(t, userId, roleId) ==
  /\ tasks[t].pc = "idle"
  /\ tasks' = [tasks EXCEPT ![t] =
                 [pc |-> "get", fn |-> "IndexedDBRoleRepository.assignToUser",
                  userId |-> userId, roleId |-> roleId, user |-> None, result |-> Returned]]
  /\ call' = NoCall
  /\ UNCHANGED <<now, roles, permArrays, callerPerms, callerRoles, user, mw, db, prisma>>

\* the get settles with a copy of the record: throw, return, or push and put
AssignToUser_afterGet(task, data) ==
  IF data = None THEN TaskDone(task, Threw("Error", "User not found"))
  ELSE IF \E i \in 1..Len(data[1].roleIds) : data[1].roleIds[i] = task.roleId
    THEN TaskDone(task, Returned)
  ELSE [task EXCEPT !.pc = "put",
                    !.user = Some([data[1] EXCEPT !.roleIds = Append(@, task.roleId)])]

AssignToUser_got(t) ==
  /\ tasks[t].pc = "get"
  /\ tasks' = [tasks EXCEPT ![t] = AssignToUser_afterGet(@, Get(db.users, @.userId))]
  /\ call' = NoCall
  /\ UNCHANGED <<now, roles, permArrays, callerPerms, callerRoles, user, mw, db, prisma>>

\* `await db.put('users', user)` settles
AssignToUser_put(t) ==
  /\ tasks[t].pc = "put"
  /\ db' = [db EXCEPT !.users = Put(@, tasks[t].user[1])]
  /\ tasks' = [tasks EXCEPT ![t] = TaskDone(@, Returned)]
  /\ call' = NoCall
  /\ UNCHANGED <<now, roles, permArrays, callerPerms, callerRoles, user, mw, prisma>>

\* a new user without roles, as registration saves it
SeedUser ==
  [id |-> "", email |-> "ann@example.com", name |-> "Ann", status |-> "ACTIVE",
   roles |-> <<>>, updatedAt |-> 0]

AssignNext ==
  \/ \E role \in SeedRoles : RoleRepo_saveThenFindById(role)
  \/ UserRepo_saveThenFindById(SeedUser)
  \/ \E t \in TaskIds, u \in {"id1", "id2", "id3", "id9"}, r \in {"id1", "id2", "id3"} :
       AssignToUser_call(t, u, r)
  \/ \E t \in TaskIds : AssignToUser_got(t)
  \/ \E t \in TaskIds : AssignToUser_put(t)

SpecAssign == Init /\ [][AssignNext]_vars

\* ------------------------------------------- UpdateUserUseCase over Prisma
\* the roles table, as seeded
RolesTable == <<AdminRow, EditorRow, SuperAdminRow>>

\* PrismaRoleRepository.findById
PrismaRole_findById(id) ==
  IF \E i \in 1..Len(RolesTable) : RolesTable[i].id = id
  THEN RolesTable[CHOOSE i \in 1..Len(RolesTable) : RolesTable[i].id = id] ELSE Null

\* PrismaUserRepository.findById: the row with the roles its userRoles link to
PrismaUser_findById(p, id) ==
  LET row == Get(p.users, id) IN
  IF row = None THEN Null
  ELSE [id |-> row[1].id, email |-> Email_create(row[1].email), name |-> row[1].name,
        status |-> row[1].status, updatedAt |-> row[1].updatedAt,
        roles |-> SelectSeq(RolesTable,
                            LAMBDA r : [userId |-> id, roleId |-> r.id] \in p.userRoles)]

\* PrismaRoleRepository.setUserRoles: one transaction, deleteMany then createMany;
\* a repeated role id violates the unique (userId, roleId) and rolls it back
PrismaRole_setUserRoles(p, userId, roleIds) ==
  IF \E i, j \in 1..Len(roleIds) : i # j /\ roleIds[i] = roleIds[j]
  THEN [prisma |-> p, result |-> Threw("PrismaClientKnownRequestError",
                                       "Unique constraint failed")]
  ELSE [prisma |-> [p EXCEPT !.userRoles =
                      {l \in @ : l.userId # userId}
                      \cup {[userId |-> userId, roleId |-> roleIds[i]] : i \in 1..Len(roleIds)}],
        result |-> Returned]

\* PrismaUserRepository.update: the fields of the row, or a failing statement
PrismaUser_update(p, u, fails) ==
  IF fails \/ Get(p.users, u.id) = None
  THEN [prisma |-> p, result |-> Threw("PrismaClientKnownRequestError", "update failed")]
  ELSE [prisma |-> [p EXCEPT !.users =
                      Put(@, [id |-> u.id, email |-> u.email, name |-> u.name,
                              status |-> u.status, updatedAt |-> u.updatedAt])],
        result |-> ReturnedValue(u)]

\* User.updateProfile(name, image), the image left as it is
updateProfile(u, name) ==
  IF IsBlank(name) THEN UserOutcome(ValidationError("Name cannot be empty"), u)
  ELSE UserOutcome(Returned, User_touch([u EXCEPT !.name = name]))

\* execute: `if (dto.roleIds !== undefined)` - fetch the roles, setRoles, setUserRoles
UpdateUser_roles(p, u, dto) ==
  IF dto.roleIds = None THEN [prisma |-> p, user |-> u, result |-> Returned]
  ELSE LET ids == dto.roleIds[1]
           missing == {i \in 1..Len(ids) : PrismaRole_findById(ids[i]) = Null}
       IN IF missing # {}
          THEN [prisma |-> p, user |-> u,
                result |-> NotFoundError("Role", ids[CHOOSE i \in missing :
                                                       \A j \in missing : i <= j])]
          ELSE LET set == PrismaRole_setUserRoles(p, u.id, ids) IN
               [prisma |-> set.prisma,
                user |-> setRoles(u, [i \in 1..Len(ids) |-> PrismaRole_findById(ids[i])]).user,
                result |-> set.result]

\* execute: `if (dto.status !== undefined)`
UpdateUser_status(u, dto) ==
  IF dto.status = None THEN u
  ELSE IF dto.status[1] = "ACTIVE" THEN activate(u).user
  ELSE IF dto.status[1] = "INACTIVE" THEN deactivate(u).user
  ELSE IF dto.status[1] = "SUSPENDED" THEN suspend(u).user
  ELSE u

\* UpdateUserUseCase.execute(userId, dto); updateFails: the final update fails
UpdateUser_run(p, userId, dto, updateFails) ==
  LET found == PrismaUser_findById(p, userId) IN
  IF found = Null THEN [prisma |-> p, result |-> NotFoundError("User", userId)]
  ELSE LET profile == IF dto.name # None THEN updateProfile(found, dto.name[1])
                      ELSE UserOutcome(Returned, found)
       IN IF profile.result.thrown THEN [prisma |-> p, result |-> profile.result]
          ELSE LET linked == UpdateUser_roles(p, profile.user, dto) IN
               IF linked.result.thrown THEN [prisma |-> linked.prisma, result |-> linked.result]
               ELSE PrismaUser_update(linked.prisma, UpdateUser_status(linked.user, dto),
                                      updateFails)

UpdateUser_execute(userId, dto, updateFails) ==
  /\ LET out == UpdateUser_run(prisma, userId, dto, updateFails) IN
     /\ prisma' = out.prisma
     /\ call' = [fn |-> "UpdateUserUseCase.execute", args |-> [userId |-> userId],
                 result |-> IF out.result.thrown THEN out.result ELSE Returned]
  /\ UNCHANGED <<now, roles, permArrays, callerPerms, callerRoles, user, mw, db, tasks>>

\* PrismaUserRepository.save of the user u1, with the given roles
PrismaUser_save(roleIds) ==
  /\ prisma.users = {}
  /\ prisma' = [users |-> {[id |-> "u1", email |-> "ann@example.com", name |-> "Ann",
                            status |-> "ACTIVE", updatedAt |-> now]},
                userRoles |-> {[userId |-> "u1", roleId |-> roleIds[i]] :
                                 i \in 1..Len(roleIds)}]
  /\ call' = [fn |-> "PrismaUserRepository.save"]
  /\ UNCHANGED <<now, roles, permArrays, callerPerms, callerRoles, user, mw, db, tasks>>

UpdateUserDtos ==
  [name : {None, Some("Bob"), Some(""), Some(" ")},
   roleIds : {None, Some(<<>>), Some(<<"r2">>), Some(<<"r1", "r2">>), Some(<<"r2", "r9">>),
              Some(<<"r2", "r2">>)},
   status : {None, Some("ACTIVE"), Some("INACTIVE"), Some("SUSPENDED")}]

UpdateUserNext ==
  \/ Tick
  \/ \E ids \in {<<>>, <<"r1">>} : PrismaUser_save(ids)
  \/ \E id \in {"u1", "u9"}, dto \in UpdateUserDtos, fails \in BOOLEAN :
       UpdateUser_execute(id, dto, fails)

SpecUpdateUser == Init /\ [][UpdateUserNext]_vars

\* ===================================================================== claims
Range(seq) == {seq[i] : i \in 1..Len(seq)}

\* the user argument of the guard call recorded in call
CallUser == IF call.withUser THEN user ELSE Null

NotActive(u) == u.status \in {"INACTIVE", "SUSPENDED"}

\* C1: for a user whose status is INACTIVE or SUSPENDED every require* guard,
\* whatever the roles, permissions and arguments, throws UnauthorizedError.
C1_InactiveUserAlwaysDenied ==
  (call.fn \in RequireGuards /\ call.withUser /\ NotActive(user))
    => (call.result.thrown /\ call.result.type = "UnauthorizedError")

\* C1 witness: a suspended admin who owns the resource is refused by
\* requireOwnershipOrPermission.
C1_Witness ==
  /\ call.fn = "requireOwnershipOrPermission"
  /\ call.withUser
  /\ user.status = "SUSPENDED"
  /\ call.args.resourceOwnerId = user.id
  /\ User_hasPermission(user, call.args.permission)
  /\ call.result.thrown

\* the permission strings a role object grants
GrantedBy(r) == {getPermissionString(p) : p \in Range(permArrays[roles[r].permissions])}

\* the union of the permission strings of the roles of the user's list
GrantedToUser == UNION {GrantedBy(r) : r \in Range(user.roles)}

C2_Union ==
  call.fn = "User.hasPermission" => (call.result.value <=> call.args.permission \in GrantedToUser)

C2_Monotone ==
  (user # Null /\ call'.fn \in {"User.assignRole", "User.assignRoles"})
    => \A s \in PermissionInputs : User_hasPermission(user, s) => User_hasPermission(user, s)'

\* C2: u.hasPermission(s) is true iff at least one role of u's list grants s
\* (union over the roles), and assigning a role never turns true into false.
C2_PermissionsAreUnionOfRoles == []C2_Union /\ [][C2_Monotone]_vars

\* C2 witness: the user holds two roles, only the second grants the permission,
\* and hasPermission answers true.
C2_Witness ==
  /\ call.fn = "User.hasPermission"
  /\ Len(user.roles) = 2
  /\ call.args.permission \notin GrantedBy(user.roles[1])
  /\ call.args.permission \in GrantedBy(user.roles[2])
  /\ call.result.value

RoleMutators ==
  {"Role.updateDetails", "Role.addPermission", "Role.removePermission", "Role.setPermissions"}

\* C3: on a role with isSystem = true each of updateDetails, addPermission,
\* removePermission and setPermissions throws InvalidOperationError and leaves
\* name, description, permission list and updatedAt as they were.
C3_SystemRoleIsImmutable ==
  [][\A r \in RoleRefs :
       (Exists(r) /\ roles[r].isSystem /\ call'.fn \in RoleMutators /\ call'.target = r)
         => /\ call'.result.thrown
            /\ call'.result.type = "InvalidOperationError"
            /\ roles'[r] = roles[r]
            /\ PermsOf(roles[r])' = PermsOf(roles[r])]_vars

\* C3 witness: updateDetails with an empty new name on a system role threw.
C3_Witness ==
  /\ call.fn = "Role.updateDetails"
  /\ call.args.name = ""
  /\ roles[call.target].isSystem
  /\ call.result.thrown

\* the order in which the checks of a config are to be evaluated
ClaimedOrder ==
  <<"permission", "anyPermissions", "allPermissions", "role", "anyRoles", "allRoles",
    "requireAdmin", "requireSuperAdmin", "customCheck">>

\* the checks the current request's config asks for, in the claimed order
ConfiguredChecks ==
  FilterSeq(ClaimedOrder,
            {k \in 1..Len(ClaimedOrder) : Configured(mw.config, ClaimedOrder[k])}, 1)

IsPrefix(a, b) == Len(a) <= Len(b) /\ SubSeq(b, 1, Len(a)) = a

\* the check passed for the user of the request
Passed(name) ==
  IF name = "customCheck" THEN mw.custom = Some(ReturnedValue(TRUE))
  ELSE ~RunGuard(mw.config, name, user).thrown

\* a guard among the evaluated checks threw
GuardFailed ==
  \E k \in 1..Len(mw.evaluated) : mw.evaluated[k] # "customCheck" /\ ~Passed(mw.evaluated[k])

LastEvaluated == mw.evaluated[Len(mw.evaluated)]

\* C4: the configured checks are evaluated in the order permission,
\* anyPermissions, allPermissions, role, anyRoles, allRoles, requireAdmin,
\* requireSuperAdmin, customCheck; nothing is evaluated after the first failing
\* check, whose message is the response's; the handler is invoked exactly once,
\* with the resolved user, iff every configured check passed.
C4_ChecksInOrderFirstFailureWins ==
  (mw.pc # "idle" /\ mw.withUser) =>
    /\ IsPrefix(mw.evaluated, ConfiguredChecks)
    /\ \A k \in 1..(Len(mw.evaluated) - 1) : Passed(mw.evaluated[k])
    /\ (mw.pc = "done" /\ GuardFailed)
         => mw.response = Some(Response403(RunGuard(mw.config, LastEvaluated, user).message))
    /\ mw.handlerCalls =
         (IF mw.evaluated = ConfiguredChecks /\ \A n \in Range(ConfiguredChecks) : Passed(n)
          THEN 1 ELSE 0)
    /\ mw.handlerCalls = 1 => mw.handlerUser = Some(user)

\* C4 witness: with every check configured, the third check is the first to
\* fail; the later ones and the handler are not reached.
C4_Witness ==
  /\ mw.pc = "done"
  /\ mw.config = FullConfig
  /\ mw.evaluated = <<"permission", "anyPermissions", "allPermissions">>
  /\ mw.response = Some(Response403("Permission denied: all of users:delete, posts:read"))
  /\ mw.custom = None
  /\ mw.handlerCalls = 0

\* sub occurs in s
Contains(s, sub) == \E i \in 1..(Len(s) - Len(sub) + 1) : SubSeq(s, i, i + Len(sub) - 1) = sub

\* C5: a request without user is answered 401 'Authentication required' and
\* no guard, customCheck or handler is evaluated; with a user, a failing
\* configured guard gives 403, never 401, with the guard's message (which
\* contains the required permission string).
C5_NoUser401GuardFailure403 ==
  mw.pc # "idle" =>
    /\ ~mw.withUser =>
         /\ mw.pc = "done"
         /\ mw.response # None
         /\ mw.response[1].status = 401
         /\ mw.response[1].error = "Authentication required"
         /\ mw.evaluated = <<>> /\ mw.custom = None /\ mw.handlerCalls = 0
         /\ mw.thrown = None
    /\ (mw.withUser /\ mw.pc = "done" /\ GuardFailed) =>
         /\ mw.response # None
         /\ mw.response[1].status = 403
         /\ mw.response[1].message = RunGuard(mw.config, LastEvaluated, user).message
         /\ (LastEvaluated = "permission" /\ isActive(user))
              => Contains(mw.response[1].message, mw.config.permission[1])

\* C5 witness: an active user lacking users:delete is answered 403 with a
\* message naming the permission.
C5_Witness ==
  /\ mw.pc = "done"
  /\ mw.withUser
  /\ isActive(user)
  /\ mw.config.permission = Some("users:delete")
  /\ mw.evaluated = <<"permission">>
  /\ mw.response = Some(Response403("Permission denied: users:delete"))

\* the message of the UnauthorizedError thrown when customCheck returns false
CustomCheckMessage ==
  IF mw.config.errorMessage \in {None, Some("")} THEN "Custom authorization check failed"
  ELSE mw.config.errorMessage[1]

\* C6: an UnauthorizedError raised by a configured guard, or for a customCheck
\* that returned false, becomes a 403 response carrying that error's message
\* and never leaves the route function.
C6_UnauthorizedBecomes403 ==
  (mw.pc = "done" /\ mw.withUser) =>
    /\ GuardFailed =>
         /\ mw.thrown = None
         /\ mw.response = Some(Response403(RunGuard(mw.config, LastEvaluated, user).message))
    /\ mw.custom = Some(ReturnedValue(FALSE)) =>
         /\ mw.thrown = None
         /\ mw.response = Some(Response403(CustomCheckMessage))

\* C6 witness: customCheck returned false, no errorMessage was configured, and
\* the answer is the 403 with the default message.
C6_Witness ==
  /\ mw.pc = "done"
  /\ mw.custom = Some(ReturnedValue(FALSE))
  /\ mw.config.errorMessage = None
  /\ mw.response = Some(Response403("Custom authorization check failed"))
  /\ mw.thrown = None

\* C7: a customCheck that throws or rejects is treated as a guard failure: a
\* denial response is returned, the handler is not invoked and nothing
\* propagates to the caller of the route function.
C7_CustomCheckThrowIsDenial ==
  (mw.pc = "done" /\ mw.custom # None /\ mw.custom[1].thrown) =>
    /\ mw.response # None
    /\ mw.response[1].status \in {401, 403}
    /\ mw.handlerCalls = 0
    /\ mw.thrown = None

\* C8: an error thrown by the handler that is not an UnauthorizedError leaves
\* the route function as the same error; no response is made of it.
C8_HandlerErrorPropagates ==
  (mw.pc = "done" /\ mw.handled # None /\ mw.handled[1].thrown
     /\ mw.handled[1].type # "UnauthorizedError")
    => (mw.thrown = Some(mw.handled[1]) /\ mw.response = None)

\* C8 witness: the handler threw a ValidationError and the route function
\* threw it on.
C8_Witness ==
  /\ mw.pc = "done"
  /\ mw.handled = Some(ValidationError("Name cannot be empty"))
  /\ mw.thrown = Some(ValidationError("Name cannot be empty"))

\* C9: every require* guard answers a null user with 'Authentication
\* required', otherwise a non-active user with 'Account is not active', and
\* only then evaluates its own check.
C9_AuthenticationThenActivityFirst ==
  call.fn \in RequireGuards =>
    /\ ~call.withUser => call.result = UnauthorizedError("Authentication required")
    /\ (call.withUser /\ ~isActive(user))
         => call.result = UnauthorizedError("Account is not active")
    /\ (call.withUser /\ isActive(user) /\ call.result.thrown)
         => call.result.message \notin {"Authentication required", "Account is not active"}

\* C9 witness: requireAdmin on a SUSPENDED user holding role ADMIN threw
\* 'Account is not active'.
C9_Witness ==
  /\ call.fn = "requireAdmin"
  /\ call.withUser
  /\ user.status = "SUSPENDED"
  /\ User_hasRole(user, "ADMIN")
  /\ call.result = UnauthorizedError("Account is not active")

\* the require* guard of a boolean guard
RequireOf(fn) ==
  CASE fn = "hasPermission" -> "requirePermission"
    [] fn = "hasAnyPermission" -> "requireAnyPermission"
    [] fn = "hasAllPermissions" -> "requireAllPermissions"
    [] fn = "hasRole" -> "requireRole"
    [] fn = "hasAnyRole" -> "requireAnyRole"
    [] fn = "hasAllRoles" -> "requireAllRoles"

\* the same-named method of the User entity
UserMethod(fn, u, a) ==
  CASE fn = "hasPermission" -> User_hasPermission(u, a.permission)
    [] fn = "hasAnyPermission" -> User_hasAnyPermission(u, a.permissions)
    [] fn = "hasAllPermissions" -> User_hasAllPermissions(u, a.permissions)
    [] fn = "hasRole" -> User_hasRole(u, a.role)
    [] fn = "hasAnyRole" -> User_hasAnyRole(u, a.roles)
    [] fn = "hasAllRoles" -> User_hasAllRoles(u, a.roles)

\* C10: a boolean guard never throws, is false for a null or non-active user,
\* otherwise returns what the same-named User method returns, and is true
\* exactly when the corresponding require* guard does not throw.
C10_BooleanGuardsMirrorRequireGuards ==
  call.fn \in BooleanGuards =>
    /\ ~call.result.thrown
    /\ ~call.withUser => call.result.value = FALSE
    /\ (call.withUser /\ ~isActive(user)) => call.result.value = FALSE
    /\ (call.withUser /\ isActive(user))
         => call.result.value = UserMethod(call.fn, user, call.args)
    /\ call.result.value <=> ~Guard(RequireOf(call.fn), CallUser, call.args).thrown

\* C10 witness: hasPermission is false for an INACTIVE user whose roles grant
\* the permission.
C10_Witness ==
  /\ call.fn = "hasPermission"
  /\ call.withUser
  /\ user.status = "INACTIVE"
  /\ User_hasPermission(user, call.args.permission)
  /\ call.result.value = FALSE

\* C11: for an active user u, requireOwnershipOrPermission(u, ownerId, perm)
\* returns without throwing iff u.id = ownerId or u.hasPermission(perm);
\* otherwise it throws UnauthorizedError.
C11_OwnershipOrPermission ==
  (call.fn = "requireOwnershipOrPermission" /\ call.withUser /\ isActive(user))
    => /\ ~call.result.thrown <=>
            \/ user.id = call.args.resourceOwnerId
            \/ call.args.permission \in GrantedToUser
       /\ call.result.thrown => call.result.type = "UnauthorizedError"

\* C11 witness: an active owner whose roles do not grant the permission passes.
C11_Witness ==
  /\ call.fn = "requireOwnershipOrPermission"
  /\ call.withUser
  /\ isActive(user)
  /\ user.id = call.args.resourceOwnerId
  /\ call.args.permission \notin GrantedToUser
  /\ ~call.result.thrown

\* no two permissions of the list have the same resource:action string
NoDuplicateStrings(perms) ==
  \A i, j \in 1..Len(perms) :
    i # j => getPermissionString(perms[i]) # getPermissionString(perms[j])

PermissionListOps ==
  {"Role.create", "Role.addPermission", "Role.addPermissions", "Role.removePermission",
   "Role.setPermissions"}

\* C12: Role.create (with any initial permission list), addPermission,
\* addPermissions, removePermission and setPermissions each leave a permission
\* list without two permissions of the same resource:action string, given a
\* list without such a pair (or no role yet) before the call.
C12_NoDuplicatePermissionStrings ==
  [][\A r \in RoleRefs :
       (call'.fn \in PermissionListOps /\ call'.target = r
          /\ (roles[r] = Null \/ NoDuplicateStrings(PermsOf(roles[r]))))
         => NoDuplicateStrings(PermsOf(roles[r])')]_vars

\* no two roles of the user's list have the same name
NoDuplicateRoleNames(u) ==
  \A i, j \in 1..Len(u.roles) : i # j => roles[u.roles[i]].name # roles[u.roles[j]].name

RoleListOps ==
  {"User.create", "User.assignRole", "User.assignRoles", "User.removeRole", "User.setRoles"}

\* C13: User.create (with any initial role list), assignRole, assignRoles,
\* removeRole and setRoles each leave a role list without two roles of the
\* same name, given a list without such a pair (or no user yet) before the call.
C13_NoDuplicateRoleNames ==
  [][(call'.fn \in RoleListOps /\ (user = Null \/ NoDuplicateRoleNames(user)))
       => NoDuplicateRoleNames(user)']_vars

\* after r.addPermission(p) returned, a second r.addPermission(p) leaves the list as it is
C14_TwiceIsOnce ==
  (call.fn = "Role.addPermission" /\ ~call.result.thrown)
    => LET role == roles[call.target]
           again == addPermission(role, PermsOf(role), call.args.permission)
       IN /\ ~again.result.thrown
          /\ again.perms = PermsOf(role)

\* r.addPermission(p) with p's string already present keeps the list, object by object
C14_PresentIsNoOp ==
  \A r \in RoleRefs :
    (Exists(r) /\ ~roles[r].isSystem /\ call'.fn = "Role.addPermission" /\ call'.target = r
       /\ getPermissionString(call'.args.permission)
            \in Range(Role_getPermissionStrings(PermsOf(roles[r]))))
      => /\ ~call'.result.thrown
         /\ PermsOf(roles[r])' = PermsOf(roles[r])

\* C14: on a non-system role addPermission(p) twice leaves the same list as
\* once; presence is decided by the permission string, so adding another
\* Permission object with a string already present changes nothing and the
\* object added first is kept.
C14_AddPermissionIsIdempotent == []C14_TwiceIsOnce /\ [][C14_PresentIsNoOp]_vars

\* C14 witness: addPermission of the second users:delete object returned and
\* the list holds the first object only.
C14_Witness ==
  /\ call.fn = "Role.addPermission"
  /\ call.args.permission = PermUsersDeleteDup
  /\ ~call.result.thrown
  /\ PermUsersDelete \in Range(PermsOf(roles[call.target]))
  /\ PermUsersDeleteDup \notin Range(PermsOf(roles[call.target]))

\* 1 to 50 characters, each of [a-zA-Z0-9_]
ValidRoleName(s) ==
  /\ Len(s) >= 1
  /\ Len(s) <= 50
  /\ \A i \in 1..Len(s) : CharAt(s, i) \in AlnumUnderscore

\* C15: the name of every role made by Role.create and changed by
\* updateDetails is non-empty, at most 50 characters long and matches
\* ^[a-zA-Z0-9_]+$; Role.create and updateDetails (on a non-system role) throw
\* ValidationError for a name that is not.
C15_RoleNameStaysValid ==
  /\ \A r \in RoleRefs : Exists(r) => ValidRoleName(roles[r].name)
  /\ (call.fn = "Role.create" /\ ~ValidRoleName(call.args.name))
       => (call.result.thrown /\ call.result.type = "ValidationError")
  /\ (call.fn = "Role.updateDetails" /\ ~roles[call.target].isSystem
        /\ ~ValidRoleName(call.args.name))
       => (call.result.thrown /\ call.result.type = "ValidationError")

\* the permission strings that occur, and one that no role grants
AllPermissionStrings == {getPermissionString(p) : p \in PermissionPool} \cup {"posts:update"}

\* C16: u.getAllPermissions() holds each permission string at most once, and
\* holds s exactly when u.hasPermission(s), whatever the role list (roles
\* sharing permissions, a role listed twice, no role at all).
C16_AllPermissionsIsDeduplicatedUnion ==
  call.fn = "User.getAllPermissions" =>
    LET all == call.result.value IN
    /\ ~call.result.thrown
    /\ \A i, j \in 1..Len(all) : i # j => all[i] # all[j]
    /\ Range(all) \subseteq AllPermissionStrings
    /\ \A s \in AllPermissionStrings : s \in Range(all) <=> User_hasPermission(user, s)

\* C16 witness: two different roles that both grant users:delete, one of them
\* posts:read as well; the result is the two strings, once each.
C16_Witness ==
  /\ call.fn = "User.getAllPermissions"
  /\ Len(user.roles) = 2
  /\ user.roles[1] # user.roles[2]
  /\ "users:delete" \in GrantedBy(user.roles[1]) \cap GrantedBy(user.roles[2])
  /\ Len(call.result.value) = 2
  /\ Range(call.result.value) = {"users:delete", "posts:read"}

\* C17: hasAllPermissions([]) and hasAllRoles([]) are true of every role and
\* every user, a user without roles included; requireAllPermissions(u, []) and
\* requireAllRoles(u, []) return for every active user and throw
\* UnauthorizedError for a null or non-active user.
C17_EmptyRequirementIsVacuous ==
  /\ \A r \in RoleRefs : Exists(r) => Role_hasAllPermissions(PermsOf(roles[r]), <<>>)
  /\ user # Null => (User_hasAllPermissions(user, <<>>) /\ User_hasAllRoles(user, <<>>))
  /\ requireAllPermissions(Null, <<>>) = UnauthorizedError("Authentication required")
  /\ requireAllRoles(Null, <<>>) = UnauthorizedError("Authentication required")
  /\ (/\ call.fn \in {"requireAllPermissions", "requireAllRoles"}
      /\ call.withUser
      /\ call.args.permissions = <<>>
      /\ call.args.roles = <<>>)
       => /\ call.result.thrown <=> ~isActive(user)
          /\ call.result.thrown => call.result.type = "UnauthorizedError"

\* C17 witness: requireAllPermissions(u, []) returned for an active user
\* without roles.
C17_Witness ==
  /\ call.fn = "requireAllPermissions"
  /\ call.withUser
  /\ isActive(user)
  /\ user.roles = <<>>
  /\ call.args.permissions = <<>>
  /\ ~call.result.thrown

C18_AddPermission ==
  \A r \in RoleRefs :
    (Exists(r) /\ call'.fn = "Role.addPermission" /\ call'.target = r /\ ~call'.result.thrown)
      => IF getPermissionString(call'.args.permission)
              \in Range(Role_getPermissionStrings(PermsOf(roles[r])))
         THEN /\ roles'[r].updatedAt = roles[r].updatedAt
              /\ PermsOf(roles[r])' = PermsOf(roles[r])
         ELSE /\ roles'[r].updatedAt = now'
              /\ PermsOf(roles[r])' = Append(PermsOf(roles[r]), call'.args.permission)

C18_AssignRole ==
  (user # Null /\ call'.fn = "User.assignRole")
    => IF roles[call'.args.role].name \in Range(User_getRoleNames(user))
       THEN /\ user'.updatedAt = user.updatedAt
            /\ user'.roles = user.roles
       ELSE /\ user'.updatedAt = now'
            /\ user'.roles = Append(user.roles, call'.args.role)

\* C18: Role.addPermission with a permission string already present and
\* User.assignRole with a role name already present leave updatedAt (and the
\* list) unchanged; a call that appends sets updatedAt to the current time.
C18_NoOpDoesNotTouch == [][C18_AddPermission /\ C18_AssignRole]_vars

\* C18 witness: at time 1 a role got a permission appended (updatedAt = 1) and
\* assigning a role whose name the user already has left the user's updatedAt
\* at its stored value.
C18_Witness ==
  /\ call.fn = "User.assignRole"
  /\ now = 1
  /\ user.updatedAt = 0
  /\ \E r \in RoleRefs : Exists(r) /\ roles[r].updatedAt = 1

\* empty or made of whitespace only
EmptyOrWhitespace(s) == \A i \in 1..Len(s) : CharAt(s, i) = " "

\* some character outside [a-zA-Z0-9_-]
HasForeignCharacter(s) == \E i \in 1..Len(s) : CharAt(s, i) \notin AlnumUnderscore \cup {"-"}

\* C19: Permission.create throws ValidationError when name, resource or action
\* is empty or whitespace-only or when resource or action holds a character
\* outside [a-zA-Z0-9_-]; otherwise it returns a permission with id '' whose
\* resource and action are stored as given and whose getPermissionString() is
\* resource + ':' + action.
C19_PermissionCreateValidates ==
  call.fn = "Permission.create" =>
    LET a == call.args IN
    IF \/ EmptyOrWhitespace(a.name) \/ EmptyOrWhitespace(a.resource)
       \/ EmptyOrWhitespace(a.action)
       \/ HasForeignCharacter(a.resource) \/ HasForeignCharacter(a.action)
    THEN call.result.thrown /\ call.result.type = "ValidationError"
    ELSE /\ ~call.result.thrown
         /\ call.result.value.id = ""
         /\ call.result.value.resource = a.resource
         /\ call.result.value.action = a.action
         /\ getPermissionString(call.result.value) = a.resource \o ":" \o a.action

\* C19 witness: create with resource 'Users' and action 'READ' returned a
\* permission whose string is 'Users:READ'.
C19_Witness ==
  /\ call.fn = "Permission.create"
  /\ call.args.resource = "Users"
  /\ call.args.action = "READ"
  /\ ~call.result.thrown
  /\ getPermissionString(call.result.value) = "Users:READ"

CallerArrayWrites ==
  {"Caller.pushPerm", "Caller.popPerm", "Caller.reversePerms",
   "Caller.pushRole", "Caller.popRole", "Caller.reverseRoles"}

\* what the queries of a role and of the user return
RoleQueries(r) ==
  [hasPermission |-> [s \in AllPermissionStrings |-> Role_hasPermission(PermsOf(roles[r]), s)],
   getPermissionStrings |-> Role_getPermissionStrings(PermsOf(roles[r]))]

UserQueries ==
  [hasPermission |-> [s \in AllPermissionStrings |-> User_hasPermission(user, s)],
   hasRole |-> [n \in {"ADMIN", "EDITOR", "SUPER_ADMIN"} |-> User_hasRole(user, n)],
   getRoleNames |-> User_getRoleNames(user),
   getAllPermissions |-> User_getAllPermissions(user)]

\* C20: adding to, removing from or reordering the array returned by the
\* role.permissions getter or the user.roles getter changes the result of no
\* later hasPermission, hasRole, getPermissionStrings, getRoleNames or
\* getAllPermissions call on that role or user.
C20_GettersReturnCopies ==
  [][call'.fn \in CallerArrayWrites
       => /\ \A r \in RoleRefs : Exists(r) => RoleQueries(r)' = RoleQueries(r)
          /\ user # Null => UserQueries' = UserQueries]_vars

\* C20 witness: the calling code emptied the array it got from user.roles and
\* pushed onto the array it got from role.permissions, and the user still has
\* its role and the role its one permission.
C20_Witness ==
  /\ call.fn = "Caller.pushPerm"
  /\ user # Null /\ Len(user.roles) = 1
  /\ callerRoles = Some(OwnArray(<<>>))
  /\ Len(PermsOf(roles[user.roles[1]])) = 1
  /\ Len(permArrays[callerPerms[1]]) = 2
  /\ SubSeq(permArrays[callerPerms[1]], 1, 1) = PermsOf(roles[user.roles[1]])

\* C23: for every permission p, Permission.fromPersistence(p.toPersistence())
\* has the same id and the same getPermissionString() as p, and
\* p.matchesString(p.getPermissionString()) is true.
C23_PermissionRoundTrip ==
  call.fn = "Permission.roundTrip" =>
    LET p == call.target
        q == call.result.value.restored IN
    /\ q.id = p.id
    /\ getPermissionString(q) = getPermissionString(p)
    /\ call.result.value.matches

\* C23 witness: the stored permission p1 (users:delete) went through the round
\* trip and came back with its id and string.
C23_Witness ==
  /\ call.fn = "Permission.roundTrip"
  /\ call.target = PermUsersDelete
  /\ call.result.value.restored.id = "p1"
  /\ getPermissionString(call.result.value.restored) = "users:delete"

\* C24: for every configuration passed to withAuthorization, the empty one and
\* one holding only customCheck and/or errorMessage included, the wrapped
\* handler is invoked only when the resolved user is ACTIVE: a request by an
\* INACTIVE or SUSPENDED user never reaches the handler.
C24_OnlyActiveUsersReachHandler ==
  mw.pc # "idle" /\ mw.handlerCalls > 0 => mw.handlerUser[1].status = "ACTIVE"

\* the set of permission strings role r grants
PermissionStringSet(r) == Range(Role_getPermissionStrings(PermsOf(roles[r])))

\* C25: a role created with isSystem = true keeps exactly the set of permission
\* strings it was constructed with, whatever is later done to that role, to
\* other roles constructed from the same permissions array, or to the array
\* that was passed to Role.create / Role.fromPersistence.
C25_SystemRoleKeepsItsPermissions ==
  [][\A r \in RoleRefs :
       (Exists(r) /\ roles[r].isSystem) => PermissionStringSet(r)' = PermissionStringSet(r)]_vars

\* the role names that occur, and one that no role carries
AllRoleNames == {row.name : row \in StoredRoles} \cup {"VIEWER"}

\* after u.setRoles(L): hasRole and hasPermission hold only by a role of L
C26_SetRoles ==
  call.fn = "User.setRoles" =>
    LET L == call.args.roles IN
    /\ \A n \in AllRoleNames :
         User_hasRole(user, n) => \E i \in 1..Len(L) : roles[L[i]].name = n
    /\ \A s \in AllPermissionStrings :
         User_hasPermission(user, s)
           => \E i \in 1..Len(L) : Role_hasPermission(PermsOf(roles[L[i]]), s)
    /\ L = <<>> =>
         /\ \A s \in AllPermissionStrings : requirePermission(user, s).thrown
         /\ \A n \in AllRoleNames : requireRole(user, n).thrown

\* u.removeRole(id): no role with that id remains, the others keep their order
C26_RemoveRole ==
  call'.fn = "User.removeRole" =>
    /\ \A i \in 1..Len(user'.roles) : roles[user'.roles[i]].id # call'.args.roleId
    /\ user'.roles = SelectSeq(user.roles, LAMBDA r : roles[r].id # call'.args.roleId)

\* C26: revocation takes effect at once: after u.setRoles(L), u.hasRole(n) and
\* u.hasPermission(s) are true only if some role in L has that name or grants
\* that permission (so after setRoles([]) every requirePermission and
\* requireRole on u throws), and after u.removeRole(id) no role with that id
\* remains in u's role list while the roles with other ids remain in order.
C26_RevocationIsImmediate == []C26_SetRoles /\ [][C26_RemoveRole]_vars

\* C26 witness: an ACTIVE user was given the empty role list and
\* requireRole('ADMIN') throws for it.
C26_Witness ==
  /\ call.fn = "User.setRoles"
  /\ call.args.roles = <<>>
  /\ user.status = "ACTIVE"
  /\ requireRole(user, "ADMIN").thrown

\* Role.removePermission(id) on a non-system role holding no permission with that id
C30_RemovePermission ==
  \A r \in RoleRefs :
    (/\ call'.fn = "Role.removePermission" /\ call'.target = r
     /\ Exists(r) /\ ~roles[r].isSystem
     /\ \A i \in 1..Len(PermsOf(roles[r])) :
          PermsOf(roles[r])[i].id # call'.args.permissionId)
      => /\ ~call'.result.thrown
         /\ PermsOf(roles[r])' = PermsOf(roles[r])
         /\ roles'[r].updatedAt = now'

\* User.removeRole(id) on a user holding no role with that id
C30_RemoveRole ==
  (/\ call'.fn = "User.removeRole"
   /\ user # Null
   /\ \A i \in 1..Len(user.roles) : roles[user.roles[i]].id # call'.args.roleId)
    => /\ ~call'.result.thrown
       /\ user'.roles = user.roles
       /\ user'.updatedAt = now'

\* C30: Role.removePermission(id) on a non-system role and User.removeRole(id),
\* called with an id that matches no element, raise no error and leave the
\* permission / role list unchanged (same elements, same order), yet still set
\* updatedAt to the current time.
C30_AbsentIdStillTouches == [][C30_RemovePermission /\ C30_RemoveRole]_vars

\* C30 witness: at time 1 removeRole('r9') ran on a user that holds roles, none
\* of them r9, and set its updatedAt to 1; a role that still holds permissions
\* was touched at time 1 as well.
C30_Witness ==
  /\ call.fn = "User.removeRole"
  /\ call.args.roleId = "r9"
  /\ Len(user.roles) > 0
  /\ now = 1 /\ user.updatedAt = 1
  /\ \E r \in RoleRefs :
       Exists(r) /\ ~roles[r].isSystem /\ roles[r].updatedAt = 1 /\ Len(PermsOf(roles[r])) > 0

\* C22: the IndexedDB repositories round-trip: after roleRepo.save(role), with
\* the role's permissions all saved, findById(saved.id) returns a role of the
\* same name and the same permission ids; after userRepo.save(user), with the
\* user's roles all saved, findById(saved.id) returns a user of the same email
\* and the same role ids.
C22_RepositoriesRoundTrip ==
  /\ (/\ call.fn = "roleRepo.save" /\ ~call.result.thrown
      /\ \A i \in 1..Len(call.args.role.permissions) :
           Get(db.permissions, call.args.role.permissions[i].id) # None)
       => /\ call.found # Null
          /\ call.found.name = call.args.role.name
          /\ IdsOf(call.found.permissions) = IdsOf(call.args.role.permissions)
  /\ (/\ call.fn = "userRepo.save" /\ ~call.result.thrown
      /\ \A i \in 1..Len(call.args.user.roles) :
           Get(db.roles, call.args.user.roles[i].id) # None)
       => /\ call.found # Null
          /\ call.found.email = call.args.user.email
          /\ IdsOf(call.found.roles) = IdsOf(call.args.user.roles)

\* C22 witness: a user with a saved role that holds a saved permission was saved
\* and found again with that role and permission.
C22_Witness ==
  /\ call.fn = "userRepo.save" /\ ~call.result.thrown
  /\ Len(call.args.user.roles) = 1
  /\ call.found # Null
  /\ Len(call.found.roles) = 1
  /\ Len(call.found.roles[1].permissions) = 1

\* execute was called without roleIds: absent, or an empty list
NoRoleIds(dto) == dto.roleIds = None \/ dto.roleIds[1] = <<>>

\* the record the call of task t saved in the step, given that it returned
SavedBy(t) == Get(db'.users, tasks'[t].result.value.id)[1]

\* the call of task t saves in the step and returns
SavesNow(t) == tasks[t].pc = "save" /\ tasks'[t].pc = "done" /\ ~tasks'[t].result.thrown

\* called with roleIds, execute saves the user with exactly the roles of those
\* ids, and throws NotFoundError without saving anything if an id is unknown
C21_WithRoleIds ==
  \A t \in TaskIds :
    /\ (SavesNow(t) /\ ~NoRoleIds(tasks[t].dto))
         => /\ SavedBy(t).roleIds = tasks[t].dto.roleIds[1]
            /\ \A i \in 1..Len(SavedBy(t).roleIds) : Get(db'.roles, SavedBy(t).roleIds[i]) # None
    /\ (/\ tasks[t].pc = "roles" /\ tasks'[t].pc # "roles" /\ ~NoRoleIds(tasks[t].dto)
        /\ \E i \in 1..Len(tasks[t].dto.roleIds[1]) :
             Get(db.roles, tasks[t].dto.roleIds[1][i]) = None)
         => /\ tasks'[t].pc = "done"
            /\ tasks'[t].result.thrown /\ tasks'[t].result.type = "NotFoundError"
            /\ db' = db

CreateUserDone(t) == tasks[t].pc = "done" /\ tasks[t].fn = "CreateUserUseCase.execute"

\* C28: for every interleaving of two CreateUserUseCase.execute calls given the
\* same (normalised) email, at most one user with that email ends up saved, and
\* the call that does not save fails with ConflictError('Email already exists').
C28_OneSavesOtherConflicts ==
  \A t1, t2 \in TaskIds :
    (/\ t1 # t2 /\ CreateUserDone(t1) /\ CreateUserDone(t2)
     /\ tasks[t1].email = tasks[t2].email
     /\ tasks[t1].result.thrown => tasks[t1].result.type # "NotFoundError"
     /\ tasks[t2].result.thrown => tasks[t2].result.type # "NotFoundError")
      => /\ Cardinality({x \in db.users : x.email = tasks[t1].email}) <= 1
         /\ tasks[t1].result.thrown \/ tasks[t2].result.thrown
         /\ \A t \in {t1, t2} :
              tasks[t].result.thrown
                => /\ tasks[t].result.type = "ConflictError"
                   /\ tasks[t].result.message = "Email already exists"

\* how often id occurs in a list of ids
Occurrences(ids, id) == Cardinality({i \in 1..Len(ids) : ids[i] = id})

\* a finished assignToUser call that did not throw
AssignedBy(t) ==
  /\ tasks[t].pc = "done" /\ tasks[t].fn = "IndexedDBRoleRepository.assignToUser"
  /\ ~tasks[t].result.thrown

\* C29: for every interleaving of IndexedDBRoleRepository.assignToUser(u, r1)
\* and assignToUser(u, r2) on the same existing user (r1 different from r2),
\* once both calls have completed the stored user's roleIds contains both r1
\* and r2, each exactly once.
C29_BothAssignmentsStored ==
  \A t1, t2 \in TaskIds :
    (/\ AssignedBy(t1) /\ AssignedBy(t2)
     /\ tasks[t1].userId = tasks[t2].userId /\ tasks[t1].roleId # tasks[t2].roleId)
      => /\ Get(db.users, tasks[t1].userId) # None
         /\ Occurrences(Get(db.users, tasks[t1].userId)[1].roleIds, tasks[t1].roleId) = 1
         /\ Occurrences(Get(db.users, tasks[t1].userId)[1].roleIds, tasks[t2].roleId) = 1

\* C27: UpdateUserUseCase.execute (role-list version) is all-or-nothing on
\* stored state: whenever it throws (unknown user, unknown role id, empty name,
\* or a failing userRepository.update), neither the stored user-role links nor
\* the stored user fields have changed from their values before the call.
C27_UpdateIsAllOrNothing ==
  [][(call'.fn = "UpdateUserUseCase.execute" /\ call'.result.thrown)
       => (prisma'.userRoles = prisma.userRoles /\ prisma'.users = prisma.users)]_vars

====
